---------------------------- MODULE Spec2Model ----------------------------
(***************************************************************************)
(* Model of the Google Sheets command translation layer.                   *)
(*                                                                         *)
(* One command invocation is a small process: `cmd' names the handler,     *)
(* `input' is its validated input, `pc' is the position between two        *)
(* awaits, `calls' is the list of backend requests the invocation has      *)
(* dispatched (each with the backend's answer once it arrived), `result'   *)
(* is the envelope the handler returned, and `backend' is the state of     *)
(* the remote spreadsheet.  Text (A1 ranges, sheet names) is a sequence    *)
(* of one-character strings so that the handlers' regular expressions      *)
(* and template strings are computed, not assumed.                         *)
(***************************************************************************)
EXTENDS Integers, Sequences, FiniteSets, TLC

VARIABLES cmd, input, pc, locals, calls, result, backend, waiting

vars == <<cmd, input, pc, locals, calls, result, backend, waiting>>

(***************************************************************************)
(* Bounds of the model.                                                    *)
(***************************************************************************)
\* largest 1-based row number written in an input range
MaxRow == 3
\* largest number of rows in a values payload
MaxRows == 3
\* largest length of one payload row
MaxRowLen == 2
\* largest zero-based column index converted to letters
MaxColumnIndex == 18277

(***************************************************************************)
(* Text.                                                                   *)
(***************************************************************************)
Alphabet ==
  << "A", "B", "C", "D", "E", "F", "G", "H", "I", "J", "K", "L", "M",
     "N", "O", "P", "Q", "R", "S", "T", "U", "V", "W", "X", "Y", "Z" >>

DigitChars == << "0", "1", "2", "3", "4", "5", "6", "7", "8", "9" >>

IsUpper(c) == \E i \in DOMAIN Alphabet : Alphabet[i] = c

IsDigit(c) == \E i \in DOMAIN DigitChars : DigitChars[i] = c

\* 'A' -> 0 ... 'Z' -> 25
LetterIndex(c) == (CHOOSE i \in DOMAIN Alphabet : Alphabet[i] = c) - 1

DigitValue(c) == (CHOOSE i \in DOMAIN DigitChars : DigitChars[i] = c) - 1

\* parseInt(text, 10) of a non-empty run of digits
RECURSIVE ParseInt(_)
ParseInt(t) ==
  IF t = << >> THEN 0
  ELSE ParseInt(SubSeq(t, 1, Len(t) - 1)) * 10 + DigitValue(t[Len(t)])

\* `${n}` for an integer n >= 0
RECURSIVE NumText(_)
NumText(n) ==
  IF n < 10 THEN << DigitChars[n + 1] >>
  ELSE NumText(n \div 10) \o << DigitChars[(n % 10) + 1] >>

\* number of consecutive characters of t, from position i on, that are upper
\* case letters (what a greedy [A-Z]+ consumes)
RECURSIVE UpperRun(_, _)
UpperRun(t, i) ==
  IF i <= Len(t) /\ IsUpper(t[i]) THEN 1 + UpperRun(t, i + 1) ELSE 0

\* the same for \d+
RECURSIVE DigitRun(_, _)
DigitRun(t, i) ==
  IF i <= Len(t) /\ IsDigit(t[i]) THEN 1 + DigitRun(t, i + 1) ELSE 0

\* position of the first occurrence of character c in t, 0 when there is none
IndexOf(t, c) ==
  IF \E i \in DOMAIN t : t[i] = c
  THEN CHOOSE i \in DOMAIN t : t[i] = c /\ \A j \in 1..(i - 1) : t[j] # c
  ELSE 0

Max(a, b) == IF a >= b THEN a ELSE b

RECURSIVE MaxOf(_)
MaxOf(s) == IF Len(s) = 1 THEN s[1] ELSE Max(s[1], MaxOf(Tail(s)))

(***************************************************************************)
(* The two-corner pattern  [A-Z]+ \d+ : [A-Z]+ \d+  tried at position i.   *)
(* The character classes are disjoint, so the greedy runs are the only     *)
(* way the pattern can match at i.  `anchored' is the trailing $.          *)
(***************************************************************************)
Scan(t, i) ==
  LET l1 == UpperRun(t, i)
      d1 == DigitRun(t, i + l1)
      l2 == UpperRun(t, i + l1 + d1 + 1)
      d2 == DigitRun(t, i + l1 + d1 + 1 + l2)
  IN  [ l1 |-> l1, d1 |-> d1, l2 |-> l2, d2 |-> d2,
        c |-> i + l1 + d1,
        e |-> i + l1 + d1 + 1 + l2 + d2 ]

\* the match of the pattern at position i, given the runs s found there
TwoCornerOf(t, i, anchored, s) ==
  [ ok |-> /\ s.l1 >= 1
           /\ s.d1 >= 1
           /\ s.c <= Len(t)
           /\ t[s.c] = ":"
           /\ s.l2 >= 1
           /\ s.d2 >= 1
           /\ (anchored => s.e = Len(t) + 1),
    g1 |-> SubSeq(t, i, i + s.l1 - 1),
    g2 |-> SubSeq(t, i + s.l1, s.c - 1),
    g3 |-> SubSeq(t, s.c + 1, s.c + s.l2),
    g4 |-> SubSeq(t, s.c + 1 + s.l2, s.e - 1) ]

TwoCornerAt(t, i, anchored) == TwoCornerOf(t, i, anchored, Scan(t, i))

\* String.prototype.match: the match at the leftmost position that has one
TwoCornerMatch(t, anchored) ==
  IF \E i \in DOMAIN t : TwoCornerAt(t, i, anchored).ok
  THEN TwoCornerAt(t,
         CHOOSE i \in DOMAIN t :
           /\ TwoCornerAt(t, i, anchored).ok
           /\ \A j \in 1..(i - 1) : ~TwoCornerAt(t, j, anchored).ok,
         anchored)
  ELSE [ ok |-> FALSE, g1 |-> << >>, g2 |-> << >>, g3 |-> << >>, g4 |-> << >> ]

(***************************************************************************)
(* Column letters.                                                         *)
(***************************************************************************)
RECURSIVE IndexToColumnLoop(_, _)
IndexToColumnLoop(num, column) ==
  IF num > 0
  THEN LET n == num - 1
       IN  IndexToColumnLoop(n \div 26, << Alphabet[(n % 26) + 1] >> \o column)
  ELSE column

\* the mutant: the loop starts at the index itself, not at index + 1
indexToColumnFromIndex(index) == IndexToColumnLoop(index, << >>)

indexToColumn(index) == IndexToColumnLoop(index + 1, << >>)

\* letters -> zero-based index, bijective base 26 ("A" = 0, "AA" = 26)
RECURSIVE ColumnNumber(_)
ColumnNumber(t) ==
  IF t = << >> THEN 0
  ELSE ColumnNumber(SubSeq(t, 1, Len(t) - 1)) * 26 + LetterIndex(t[Len(t)]) + 1

columnToIndex(t) == ColumnNumber(t) - 1

(***************************************************************************)
(* Building input text.                                                    *)
(***************************************************************************)
SheetOne == << "S", "h", "e", "e", "t", "1" >>

MySheet == << "M", "y", " ", "S", "h", "e", "e", "t" >>

NoSuchSheet == << "N", "o", "p", "e" >>

\* the A1 text of the cell in zero-based column col and 1-based row row
Cell(col, row) == indexToColumn(col) \o NumText(row)

Corners(a, b) == a \o << ":" >> \o b

Qualified(name, a1) == name \o << "!" >> \o a1

Quoted(name) == << "'" >> \o name \o << "'" >>

\* a row of a values payload with k cells
Row(k) == [ i \in 1..k |-> "v" ]

\* every payload of at most maxRows rows, each of at most maxLen cells
Payloads(maxRows, maxLen) ==
  UNION { [ 1..n -> { Row(k) : k \in 0..maxLen } ] : n \in 0..maxRows }

(***************************************************************************)
(* Address parser and sheet resolver (utils/range-helpers).                *)
(***************************************************************************)
\* an absent (undefined) index of a grid range: an unbounded side
Absent == 0 - 1

\* a ?? b
Coalesce(a, b) == IF a = Absent THEN b ELSE a

\* splits an optional sheet qualifier off a range; one layer of single quotes
\* around the name is stripped; no qualifier gives the empty name
extractSheetName(t) ==
  LET b == IndexOf(t, "!")
      q == SubSeq(t, 1, b - 1)
      r == SubSeq(t, b + 1, Len(t))
  IN  IF b = 0 THEN [ ok |-> TRUE, sheetName |-> << >>, range |-> t ]
      ELSE IF Len(q) >= 2 /\ q[1] = "'" /\ q[Len(q)] = "'"
      THEN [ ok |-> TRUE, sheetName |-> SubSeq(q, 2, Len(q) - 1), range |-> r ]
      ELSE IF q # << >> /\ (q[1] = "'" \/ q[Len(q)] = "'")
      THEN [ ok |-> FALSE, sheetName |-> << >>, range |-> r ]
      ELSE [ ok |-> TRUE, sheetName |-> q, range |-> r ]

\* A1 text without qualifier -> grid range with exclusive end indices.
\* Accepted: cell, cell:cell, column:column (rows unbounded).
GridRange(sheetId, startRow, endRow, startColumn, endColumn) ==
  [ ok |-> TRUE, sheetId |-> sheetId,
    startRowIndex |-> startRow, endRowIndex |-> endRow,
    startColumnIndex |-> startColumn, endColumnIndex |-> endColumn ]

NoGridRange ==
  [ ok |-> FALSE, sheetId |-> Absent,
    startRowIndex |-> Absent, endRowIndex |-> Absent,
    startColumnIndex |-> Absent, endColumnIndex |-> Absent ]

parseScanned(t, sheetId, s) ==
  IF s.l1 >= 1 /\ s.d1 >= 1 /\ s.c = Len(t) + 1
  THEN GridRange(sheetId,
                 ParseInt(SubSeq(t, 1 + s.l1, s.c - 1)) - 1,
                 ParseInt(SubSeq(t, 1 + s.l1, s.c - 1)),
                 columnToIndex(SubSeq(t, 1, s.l1)),
                 columnToIndex(SubSeq(t, 1, s.l1)) + 1)
  ELSE IF /\ s.l1 >= 1 /\ s.d1 >= 1 /\ s.c <= Len(t) /\ t[s.c] = ":"
          /\ s.l2 >= 1 /\ s.d2 >= 1 /\ s.e = Len(t) + 1
  THEN GridRange(sheetId,
                 ParseInt(SubSeq(t, 1 + s.l1, s.c - 1)) - 1,
                 ParseInt(SubSeq(t, s.c + 1 + s.l2, s.e - 1)),
                 columnToIndex(SubSeq(t, 1, s.l1)),
                 columnToIndex(SubSeq(t, s.c + 1, s.c + s.l2)) + 1)
  ELSE IF /\ s.l1 >= 1 /\ s.d1 = 0 /\ s.c <= Len(t) /\ t[s.c] = ":"
          /\ s.l2 >= 1 /\ s.d2 = 0 /\ s.e = Len(t) + 1
  THEN GridRange(sheetId, 0, Absent,
                 columnToIndex(SubSeq(t, 1, s.l1)),
                 columnToIndex(SubSeq(t, s.c + 1, s.c + s.l2)) + 1)
  ELSE NoGridRange

parseRange(t, sheetId) == parseScanned(t, sheetId, Scan(t, 1))

\* the second half of getSheetId: the metadata listing `sheets' has arrived.
\* A given name is matched exactly; no name means the first sheet.
getSheetIdFound(sheets, sheetName) ==
  IF sheetName = << >> THEN Len(sheets) >= 1
  ELSE \E i \in DOMAIN sheets : sheets[i].title = sheetName

getSheetIdValue(sheets, sheetName) ==
  IF sheetName = << >> THEN sheets[1].sheetId
  ELSE sheets[CHOOSE i \in DOMAIN sheets : sheets[i].title = sheetName].sheetId

(***************************************************************************)
(* JavaScript objects: functions from the keys present to their values.    *)
(***************************************************************************)
EmptyObject == [ k \in { } |-> "" ]

Put(obj, key, value) == (key :> value) @@ obj

Has(obj, key) == key \in DOMAIN obj

\* the value of a property that was assigned undefined, and null
Undefined == "<undefined>"

Null == "<null>"

\* JSON.stringify drops the properties whose value is undefined
Json(obj) == [ k \in { k \in DOMAIN obj : obj[k] # Undefined } |-> obj[k] ]

\* the objects with at most n of the given keys, each key with value v
ObjectsOver(keys, n, v) ==
  { [ k \in ks |-> v ] : ks \in { ks \in SUBSET keys : Cardinality(ks) <= n } }

\* if (source[key] !== undefined) target[key] = source[key]
CopyIfPresent(target, source, key) ==
  IF Has(source, key) THEN Put(target, key, source[key]) ELSE target

\* if (present) target[key] = value
PutIf(target, present, key, value) ==
  IF present THEN Put(target, key, value) ELSE target

\* the formatting attributes of a cell
FormatKeys ==
  { "backgroundColor", "textFormat", "horizontalAlignment", "verticalAlignment",
    "wrapStrategy", "numberFormat", "padding" }

\* legend position tokens
LegendSuffix == << "_", "L", "E", "G", "E", "N", "D" >>

RightText == << "R", "I", "G", "H", "T" >>

BottomLegend == << "B", "O", "T", "T", "O", "M" >> \o LegendSuffix

NoLegend == << "N", "O" >> \o LegendSuffix

(***************************************************************************)
(* Envelopes and errors (utils/error-handler, utils/formatters).           *)
(***************************************************************************)
NoResult == [ done |-> FALSE, success |-> FALSE, error |-> "", code |-> 0 ]

\* new Error(message)
Thrown(message) == [ message |-> message, code |-> 0 ]

\* the error the backend client throws for a failed request
BackendError(code) == [ message |-> "backend request failed", code |-> code ]

handleError(err) ==
  [ done |-> TRUE, success |-> FALSE, error |-> err.message, code |-> err.code ]

formatToolResponse ==
  [ done |-> TRUE, success |-> TRUE, error |-> "", code |-> 0 ]

(***************************************************************************)
(* The backend.                                                            *)
(***************************************************************************)
\* the failure codes the backend answers with: permission denied, rate limit
FailureCodes == { 400, 403, 404, 429 }

NoData == [ none |-> TRUE ]

\* the access tokens of the platform's callers
FirstToken == "token-A"

SecondToken == "token-B"

\* the tokens the invocations of the one-invocation specification carry
AccessTokens == { FirstToken }

\* the mutant: the client is built once, for the first caller, and kept
createSheetsClientCached(accessToken) ==
  [ credentials |-> [ access_token |-> FirstToken ] ]

\* a new client whose credentials are the given token
createSheetsClient(accessToken) ==
  [ credentials |-> [ access_token |-> accessToken ] ]

\* a request of the running invocation, sent through its client
Request(api, req) ==
  [ api |-> api, req |-> req,
    token |-> createSheetsClient(input.accessToken).credentials.access_token,
    status |-> "pending", code |-> 0, data |-> NoData ]

Dispatch(api, req) == calls' = Append(calls, Request(api, req))

LastCall == calls[Len(calls)]

Awaiting == calls # << >> /\ LastCall.status = "pending"

Replied == calls # << >> /\ LastCall.status # "pending"

\* the chart the spreadsheet holds at the start, on its first sheet
ExistingChart ==
  [ chartId |-> 1,
    position |-> [ anchorSheetId |-> 0 ],
    spec |-> [ title |-> "Sales",
               basicChart |-> [ chartType |-> "COLUMN",
                                legendPosition |-> RightText \o LegendSuffix,
                                axis |-> << >>,
                                domains |-> << [ sourceRange |-> "A2:A5" ] >>,
                                series |-> << [ sourceRange |-> "B2:B5" ] >>,
                                headerCount |-> "1" ] ] ]

\* the properties of a sheet an updateSheetProperties field mask can name, in
\* the order update sheet properties lists them
GridPropertyKeys ==
  << "rowCount", "columnCount", "frozenRowCount", "frozenColumnCount" >>

GridPath(key) == "gridProperties." \o key

SheetPropertyNames ==
  { "title", "tabColor" } \cup { GridPath(GridPropertyKeys[i]) : i \in DOMAIN GridPropertyKeys }

\* the format of a range no request has touched: every attribute as it was
Unformatted == [ k \in FormatKeys |-> "old" ]

InitialBackend ==
  [ sheets |-> << [ title |-> SheetOne, sheetId |-> 0, charts |-> << ExistingChart >> ],
                  [ title |-> MySheet, sheetId |-> 7, charts |-> << >> ] >>,
    formats |-> EmptyObject,
    inserted |-> << >>,
    written |-> << >>,
    properties |-> [ id \in { 0, 7 } |-> [ n \in SheetPropertyNames |-> "old" ] ] ]

\* what the backend returns for a successful request
ReplyData(b, call) ==
  IF call.api = "spreadsheets.get" THEN [ sheets |-> b.sheets ] ELSE NoData

\* the attributes a repeatCell field mask covers
MaskCovers(fields) ==
  IF fields = "userEnteredFormat" THEN FormatKeys
  ELSE IF fields = "userEnteredFormat.numberFormat" THEN { "numberFormat" }
  ELSE { }

FormatAt(formats, gridRange) ==
  IF gridRange \in DOMAIN formats THEN formats[gridRange] ELSE Unformatted

\* repeatCell: an attribute the mask covers is set when the cell carries it
\* and cleared when it does not; an attribute outside the mask is kept
ApplyRepeatCell(formats, rq) ==
  Put(formats, rq.range,
      [ k \in FormatKeys |->
          IF k \in MaskCovers(rq.fields)
          THEN IF Has(rq.cell.userEnteredFormat, k) THEN "set" ELSE "cleared"
          ELSE FormatAt(formats, rq.range)[k] ])

RECURSIVE ApplyRequests(_, _)
ApplyRequests(formats, requests) ==
  IF Len(requests) = 0 THEN formats
  ELSE ApplyRequests(IF Head(requests).kind = "repeatCell"
                     THEN ApplyRepeatCell(formats, Head(requests))
                     ELSE formats,
                     Tail(requests))

\* a deleteSheet among the requests names the sheet
Deleted(requests, sheet) ==
  \E n \in DOMAIN requests :
    requests[n].kind = "deleteSheet" /\ requests[n].sheetId = sheet.sheetId

\* the row spans the insertDimension requests among the requests insert
RECURSIVE InsertedBy(_)
InsertedBy(requests) ==
  IF Len(requests) = 0 THEN << >>
  ELSE (IF Head(requests).kind = "insertDimension"
        THEN << Head(requests).range >> ELSE << >>)
         \o InsertedBy(Tail(requests))

\* the field mask names the property, itself or through its parent
MaskNames(fields, name) ==
  \E i \in DOMAIN fields :
    \/ fields[i] = name
    \/ fields[i] = "gridProperties" /\ name \notin { "title", "tabColor" }

\* the value an updateSheetProperties request carries for a property; a
\* property the mask names and the request lacks is cleared
SentProperty(properties, name) ==
  IF name \in { "title", "tabColor" }
  THEN IF Has(properties, name) THEN properties[name] ELSE "cleared"
  ELSE LET key == GridPropertyKeys[CHOOSE i \in DOMAIN GridPropertyKeys :
                                     GridPath(GridPropertyKeys[i]) = name]
       IN  IF Has(properties, "gridProperties") /\ Has(properties.gridProperties, key)
           THEN properties.gridProperties[key]
           ELSE "cleared"

ApplySheetProperties(props, rq) ==
  IF rq.properties.sheetId \in DOMAIN props
  THEN [ props EXCEPT ![rq.properties.sheetId] =
           [ n \in SheetPropertyNames |->
               IF MaskNames(rq.fields, n) THEN SentProperty(rq.properties, n)
               ELSE @[n] ] ]
  ELSE props

RECURSIVE ApplyPropertyRequests(_, _)
ApplyPropertyRequests(props, requests) ==
  IF Len(requests) = 0 THEN props
  ELSE ApplyPropertyRequests(IF Head(requests).kind = "updateSheetProperties"
                             THEN ApplySheetProperties(props, Head(requests))
                             ELSE props,
                             Tail(requests))

\* updateChartSpec and updateEmbeddedObjectPosition replace the spec and the
\* position of the chart they name
ApplyToChart(chart, rq) ==
  IF rq.kind = "updateChartSpec" /\ rq.chartId = chart.chartId
  THEN [ chart EXCEPT !.spec = rq.spec ]
  ELSE IF rq.kind = "updateEmbeddedObjectPosition" /\ rq.objectId = chart.chartId
  THEN [ chart EXCEPT !.position = rq.newPosition ]
  ELSE chart

RECURSIVE ApplyChartRequests(_, _)
ApplyChartRequests(chart, requests) ==
  IF Len(requests) = 0 THEN chart
  ELSE ApplyChartRequests(ApplyToChart(chart, Head(requests)), Tail(requests))

ChartsApplied(sheets, requests) ==
  [ i \in DOMAIN sheets |->
      [ sheets[i] EXCEPT !.charts =
          [ k \in DOMAIN @ |-> ApplyChartRequests(@[k], requests) ] ] ]

\* the backend state after a successful request
Apply(b, call) ==
  IF call.api = "spreadsheets.batchUpdate"
  THEN [ b EXCEPT !.formats = ApplyRequests(@, call.req.requests),
                  !.sheets = ChartsApplied(
                               SelectSeq(@, LAMBDA s : ~Deleted(call.req.requests, s)),
                               call.req.requests),
                  !.inserted = @ \o InsertedBy(call.req.requests),
                  !.properties = ApplyPropertyRequests(@, call.req.requests) ]
  ELSE IF call.api = "values.update"
  THEN [ b EXCEPT !.written =
           Append(@, [ range |-> call.req.range, values |-> call.req.values ]) ]
  ELSE b

\* the backend states a successful request can leave.  values.update takes
\* valueInputOption and the response options and defines no validateOnly:
\* whether a request sent with it is executed is not the program's to decide
Outcomes(b, call) ==
  IF Has(call.req, "validateOnly") THEN { Apply(b, call), b } ELSE { Apply(b, call) }

BackendOk ==
  /\ Awaiting
  /\ calls' = [ calls EXCEPT ![Len(calls)] =
                  [ @ EXCEPT !.status = "ok",
                             !.data = ReplyData(backend, LastCall) ] ]
  /\ backend' \in Outcomes(backend, LastCall)
  /\ UNCHANGED << cmd, input, pc, locals, result >>
  /\ UNCHANGED waiting

BackendFail ==
  /\ Awaiting
  /\ \E c \in FailureCodes :
       calls' = [ calls EXCEPT ![Len(calls)] =
                    [ @ EXCEPT !.status = "failed", !.code = c ] ]
  /\ UNCHANGED << cmd, input, pc, locals, result, backend >>
  /\ UNCHANGED waiting

Return(r) == result' = r /\ pc' = "done"

\* the mutant: a failed first request is issued once more before the error is
\* returned
ThrowAfterRetry(err) ==
  IF Len(calls) = 1
  THEN /\ calls' = Append(calls, Request(LastCall.api, LastCall.req))
       /\ UNCHANGED << pc, result >>
  ELSE /\ Return(handleError(err))
       /\ UNCHANGED calls

\* catch (error) { return handleError(error) }
Throw(err) ==
  /\ Return(handleError(err))
  /\ UNCHANGED calls

\* return formatToolResponse(...) / catch: return handleError(error)
ReturnLastReply ==
  IF LastCall.status = "ok"
  THEN /\ Return(formatToolResponse)
       /\ UNCHANGED calls
  ELSE Throw(BackendError(LastCall.code))

(***************************************************************************)
(* sheets_update_values                                                    *)
(***************************************************************************)
\* TRUE when validateRangeRowCount throws
RowCountMismatchOffByOne(range, values) ==
  LET match == TwoCornerMatch(range, TRUE)
  IN  IF ~match.ok \/ match.g2 = << >> \/ match.g4 = << >> THEN FALSE
      ELSE ParseInt(match.g4) - ParseInt(match.g2) # Len(values)

validateRangeRowCount(range, values) ==
  LET match == TwoCornerMatch(range, TRUE)
  IN  IF ~match.ok \/ match.g2 = << >> \/ match.g4 = << >> THEN FALSE
      ELSE LET startRow == ParseInt(match.g2)
               endRow == ParseInt(match.g4)
               expectedRows == endRow - startRow + 1
               actualRows == Len(values)
           IN  expectedRows # actualRows

UpdateValuesRanges ==
  LET a1 == { Corners(Cell(0, r1), Cell(1, r2)) : r1, r2 \in 1..MaxRow }
              \cup { Cell(0, 1), Corners(<< "A" >>, << "B" >>),
                     Corners(Cell(0, 1), << "B" >>) }
  IN  a1 \cup { Qualified(SheetOne, t) : t \in a1 }

InitUpdateValues ==
  /\ cmd = "update_values"
  /\ input \in [ accessToken : AccessTokens,
                 range : UpdateValuesRanges, values : Payloads(MaxRows + 1, 1) ]

handleUpdateValues ==
  /\ cmd = "update_values"
  /\ pc = "start"
  /\ IF validateRangeRowCount(input.range, input.values)
     THEN Throw(Thrown("Range mismatch"))
     ELSE /\ Dispatch("values.update",
                      [ range |-> input.range, values |-> input.values ])
          /\ pc' = "updated"
          /\ UNCHANGED result
  /\ UNCHANGED << cmd, input, locals, backend >>
  /\ UNCHANGED waiting

handleUpdateValuesReturn ==
  /\ cmd = "update_values"
  /\ pc = "updated"
  /\ Replied
  /\ ReturnLastReply
  /\ UNCHANGED << cmd, input, locals, backend >>
  /\ UNCHANGED waiting

(***************************************************************************)
(* Commands that resolve one range: the shared steps.                      *)
(***************************************************************************)
\* ranges given to the commands that resolve a range
ResolveRanges ==
  { Qualified(SheetOne, Corners(Cell(0, 1), Cell(1, 2))),
    Corners(Cell(0, 1), Cell(1, 2)),
    Qualified(Quoted(MySheet), Cell(1, 2)),
    Qualified(NoSuchSheet, Cell(0, 1)),
    Qualified(SheetOne, << "A" >>),
    Corners(<< "A" >>, << "A" >>) }

\* extractSheetName, then the metadata request getSheetId issues
BeginResolve(range, next) ==
  IF extractSheetName(range).ok
  THEN /\ Dispatch("spreadsheets.get", [ fields |-> "sheets" ])
       /\ pc' = next
       /\ UNCHANGED result
  ELSE Throw(Thrown("Invalid range"))

\* getSheetId's answer has arrived (as `call'); then parseRange.  `fallback' is
\* the sheet id used when `call' is no lookup (the caller already had an id).
ResolveParsed(g) ==
  IF g.ok
  THEN [ ok |-> TRUE, err |-> Thrown(""), gridRange |-> g ]
  ELSE [ ok |-> FALSE, err |-> Thrown("Invalid range"), gridRange |-> NoGridRange ]

ResolveNamed(x, call, looked, fallback) ==
  IF ~x.ok
  THEN [ ok |-> FALSE, err |-> Thrown("Invalid range"), gridRange |-> NoGridRange ]
  ELSE IF looked /\ call.status = "failed"
  THEN [ ok |-> FALSE, err |-> BackendError(call.code), gridRange |-> NoGridRange ]
  ELSE IF looked /\ ~getSheetIdFound(call.data.sheets, x.sheetName)
  THEN [ ok |-> FALSE, err |-> Thrown("Sheet not found"), gridRange |-> NoGridRange ]
  ELSE ResolveParsed(parseRange(x.range,
                                IF looked
                                THEN getSheetIdValue(call.data.sheets, x.sheetName)
                                ELSE fallback))

ResolveWith(range, call, looked, fallback) ==
  ResolveNamed(extractSheetName(range), call, looked, fallback)

Resolved(range) == ResolveWith(range, LastCall, TRUE, Absent)

\* the batchUpdate every such command ends with
BatchUpdate(requests) ==
  Dispatch("spreadsheets.batchUpdate", [ requests |-> requests ])

(***************************************************************************)
(* sheets_format_cells                                                     *)
(***************************************************************************)
\* largest number of attributes in one format object and in its textFormat
MaxFormatKeys == 2

TextFormatKeys ==
  { "foregroundColor", "fontFamily", "fontSize", "bold", "italic",
    "strikethrough", "underline" }

NumberFormats == { [ type |-> "NUMBER" ], [ type |-> "DATE", pattern |-> "d.M.yyyy" ] }

\* the format objects the schema accepts, with at most n attributes per level
FormatsUpTo(n) ==
  LET plain == ObjectsOver(FormatKeys \ { "textFormat", "numberFormat" }, n, "v")
      texts == ObjectsOver(TextFormatKeys, n, "v")
      withText == plain \cup { Put(f, "textFormat", t) : f \in plain, t \in texts }
      withBoth == withText \cup
                  { Put(f, "numberFormat", nf) : f \in withText, nf \in NumberFormats }
  IN  { f \in withBoth : Cardinality(DOMAIN f) <= n }

FormatInputs == FormatsUpTo(MaxFormatKeys)

\* { type: nf.type, pattern: nf.pattern ?? null }
numberFormatOf(nf) ==
  [ type |-> nf.type, pattern |-> IF Has(nf, "pattern") THEN nf.pattern ELSE Null ]

\* the copy of textFormat: one property per property that is not undefined
textFormatOf(tf) ==
  CopyIfPresent(CopyIfPresent(CopyIfPresent(CopyIfPresent(CopyIfPresent(
  CopyIfPresent(CopyIfPresent(EmptyObject,
    tf, "foregroundColor"),
    tf, "fontFamily"),
    tf, "fontSize"),
    tf, "bold"),
    tf, "italic"),
    tf, "strikethrough"),
    tf, "underline")

\* the cellFormat object built from the input's format
buildCellFormat(format) ==
  CopyIfPresent(
    PutIf(
      CopyIfPresent(CopyIfPresent(CopyIfPresent(
        PutIf(
          CopyIfPresent(EmptyObject, format, "backgroundColor"),
          Has(format, "textFormat"), "textFormat", textFormatOf(format.textFormat)),
        format, "horizontalAlignment"),
        format, "verticalAlignment"),
        format, "wrapStrategy"),
      Has(format, "numberFormat"), "numberFormat", numberFormatOf(format.numberFormat)),
    format, "padding")

repeatCellRequest(gridRange, format) ==
  [ kind |-> "repeatCell",
    range |-> gridRange,
    cell |-> [ userEnteredFormat |-> buildCellFormat(format) ],
    fields |-> "userEnteredFormat" ]

InitFormatCells ==
  /\ cmd = "format_cells"
  /\ input \in [ accessToken : AccessTokens,
                 range : ResolveRanges, format : FormatInputs ]

formatCellsHandler ==
  /\ cmd = "format_cells"
  /\ pc = "start"
  /\ BeginResolve(input.range, "resolving")
  /\ UNCHANGED << cmd, input, locals, backend >>
  /\ UNCHANGED waiting

formatCellsResolved ==
  /\ cmd = "format_cells"
  /\ pc = "resolving"
  /\ Replied
  /\ LET r == Resolved(input.range)
     IN  IF r.ok
         THEN /\ BatchUpdate(<< repeatCellRequest(r.gridRange, input.format) >>)
              /\ pc' = "updating"
              /\ UNCHANGED result
         ELSE Throw(r.err)
  /\ UNCHANGED << cmd, input, locals, backend >>
  /\ UNCHANGED waiting

formatCellsReturn ==
  /\ cmd = "format_cells"
  /\ pc = "updating"
  /\ Replied
  /\ ReturnLastReply
  /\ UNCHANGED << cmd, input, locals, backend >>
  /\ UNCHANGED waiting

(***************************************************************************)
(* sheets_update_borders                                                   *)
(***************************************************************************)
BorderEdges ==
  { "top", "bottom", "left", "right", "innerHorizontal", "innerVertical" }

BorderStyles == { "NONE", "SOLID" }

BorderRanges ==
  { Qualified(SheetOne, Corners(Cell(0, 1), Cell(1, 2))),
    Qualified(NoSuchSheet, Cell(0, 1)),
    Qualified(SheetOne, << "A" >>) }

\* every borders object: any subset of the edges, each with a style
BorderInputs ==
  UNION { [ es -> { [ style |-> st ] : st \in BorderStyles } ] :
          es \in SUBSET BorderEdges }

\* obj[key] as a value that may be undefined
Prop(obj, key) ==
  [ defined |-> Has(obj, key),
    value |-> IF Has(obj, key) THEN obj[key] ELSE EmptyObject ]

\* the mutant: an edge whose style is NONE is treated like a missing edge
convertBorderDropsNone(border) ==
  IF ~border.defined \/ border.value.style = "NONE"
  THEN [ defined |-> FALSE, value |-> EmptyObject ]
  ELSE [ defined |-> TRUE,
         value |-> Json([ k \in { "style", "color", "width" } |->
                          IF Has(border.value, k) THEN border.value[k]
                          ELSE Undefined ]) ]

\* convertBorder: undefined for no border, else { style, color, width } of it,
\* as it is serialized
convertBorder(border) ==
  IF ~border.defined
  THEN [ defined |-> FALSE, value |-> EmptyObject ]
  ELSE [ defined |-> TRUE,
         value |-> Json([ k \in { "style", "color", "width" } |->
                          IF Has(border.value, k) THEN border.value[k]
                          ELSE Undefined ]) ]

\* const b = convertBorder(borders[edge]); if (b) request[edge] = b
WithEdge(request, borders, edge) ==
  PutIf(request, convertBorder(Prop(borders, edge)).defined,
        edge, convertBorder(Prop(borders, edge)).value)

updateBordersRequest(gridRange, borders) ==
  WithEdge(WithEdge(WithEdge(WithEdge(WithEdge(WithEdge(
    [ kind |-> "updateBorders", range |-> gridRange ],
    borders, "top"),
    borders, "bottom"),
    borders, "left"),
    borders, "right"),
    borders, "innerHorizontal"),
    borders, "innerVertical")

InitUpdateBorders ==
  /\ cmd = "update_borders"
  /\ input \in [ accessToken : AccessTokens,
                 range : BorderRanges, borders : BorderInputs ]

updateBordersHandler ==
  /\ cmd = "update_borders"
  /\ pc = "start"
  /\ BeginResolve(input.range, "resolving")
  /\ UNCHANGED << cmd, input, locals, backend >>
  /\ UNCHANGED waiting

updateBordersResolved ==
  /\ cmd = "update_borders"
  /\ pc = "resolving"
  /\ Replied
  /\ LET r == Resolved(input.range)
     IN  IF r.ok
         THEN /\ BatchUpdate(<< updateBordersRequest(r.gridRange, input.borders) >>)
              /\ pc' = "updating"
              /\ UNCHANGED result
         ELSE Throw(r.err)
  /\ UNCHANGED << cmd, input, locals, backend >>
  /\ UNCHANGED waiting

updateBordersReturn ==
  /\ cmd = "update_borders"
  /\ pc = "updating"
  /\ Replied
  /\ ReturnLastReply
  /\ UNCHANGED << cmd, input, locals, backend >>
  /\ UNCHANGED waiting

(***************************************************************************)
(* sheets_merge_cells, sheets_unmerge_cells                                *)
(***************************************************************************)
MergeTypes == { "MERGE_ALL", "MERGE_COLUMNS", "MERGE_ROWS" }

InitMergeCells ==
  /\ cmd = "merge_cells"
  /\ input \in [ accessToken : AccessTokens,
                 range : ResolveRanges, mergeType : MergeTypes ]

mergeCellsHandler ==
  /\ cmd = "merge_cells"
  /\ pc = "start"
  /\ BeginResolve(input.range, "resolving")
  /\ UNCHANGED << cmd, input, locals, backend >>
  /\ UNCHANGED waiting

mergeCellsResolved ==
  /\ cmd = "merge_cells"
  /\ pc = "resolving"
  /\ Replied
  /\ LET r == Resolved(input.range)
     IN  IF r.ok
         THEN /\ BatchUpdate(<< [ kind |-> "mergeCells", range |-> r.gridRange,
                                  mergeType |-> input.mergeType ] >>)
              /\ pc' = "updating"
              /\ UNCHANGED result
         ELSE Throw(r.err)
  /\ UNCHANGED << cmd, input, locals, backend >>
  /\ UNCHANGED waiting

mergeCellsReturn ==
  /\ cmd = "merge_cells"
  /\ pc = "updating"
  /\ Replied
  /\ ReturnLastReply
  /\ UNCHANGED << cmd, input, locals, backend >>
  /\ UNCHANGED waiting

InitUnmergeCells ==
  /\ cmd = "unmerge_cells"
  /\ input \in [ accessToken : AccessTokens,
                 range : ResolveRanges ]

unmergeCellsHandler ==
  /\ cmd = "unmerge_cells"
  /\ pc = "start"
  /\ BeginResolve(input.range, "resolving")
  /\ UNCHANGED << cmd, input, locals, backend >>
  /\ UNCHANGED waiting

unmergeCellsResolved ==
  /\ cmd = "unmerge_cells"
  /\ pc = "resolving"
  /\ Replied
  /\ LET r == Resolved(input.range)
     IN  IF r.ok
         THEN /\ BatchUpdate(<< [ kind |-> "unmergeCells", range |-> r.gridRange ] >>)
              /\ pc' = "updating"
              /\ UNCHANGED result
         ELSE Throw(r.err)
  /\ UNCHANGED << cmd, input, locals, backend >>
  /\ UNCHANGED waiting

unmergeCellsReturn ==
  /\ cmd = "unmerge_cells"
  /\ pc = "updating"
  /\ Replied
  /\ ReturnLastReply
  /\ UNCHANGED << cmd, input, locals, backend >>
  /\ UNCHANGED waiting

(***************************************************************************)
(* sheets_batch_format_cells                                               *)
(***************************************************************************)
\* largest number of entries of a batched command
MaxBatch == 2

BatchRanges ==
  { Qualified(SheetOne, Corners(Cell(0, 1), Cell(1, 2))),
    Qualified(Quoted(MySheet), Cell(1, 2)),
    Qualified(NoSuchSheet, Cell(0, 1)),
    Qualified(SheetOne, << "A" >>) }

BatchFormats ==
  { [ textFormat |-> [ bold |-> "v" ] ],
    [ numberFormat |-> [ type |-> "NUMBER" ] ],
    [ backgroundColor |-> "v", wrapStrategy |-> "v" ] }

InitBatchFormatCells ==
  /\ cmd = "batch_format_cells"
  /\ \E n \in 0..MaxBatch :
       input \in [ accessToken : AccessTokens,
                   formatRequests :
                     [ 1..n -> [ range : BatchRanges, format : BatchFormats ] ] ]

\* the loop body after parseRange: the request pushed for one entry
batchRepeatCellRequest(gridRange, format) ==
  [ kind |-> "repeatCell",
    range |-> gridRange,
    cell |-> [ userEnteredFormat |-> buildCellFormat(format) ],
    fields |-> "userEnteredFormat" ]

\* the mutant: the batch is sent as soon as the first entry is built
BatchFormatStepFirstOnly(i, requests) ==
  IF i <= Len(input.formatRequests) /\ i <= 1
  THEN /\ BeginResolve(input.formatRequests[i].range, "resolving")
       /\ locals' = [ i |-> i, requests |-> requests ]
  ELSE /\ BatchUpdate(requests)
       /\ pc' = "updating"
       /\ locals' = [ i |-> i, requests |-> requests ]
       /\ UNCHANGED result

\* the loop reaches entry i with `requests' built: its sheet is looked up, or,
\* past the last entry, the batch is sent
BatchFormatStep(i, requests) ==
  IF i <= Len(input.formatRequests)
  THEN /\ BeginResolve(input.formatRequests[i].range, "resolving")
       /\ locals' = [ i |-> i, requests |-> requests ]
  ELSE /\ BatchUpdate(requests)
       /\ pc' = "updating"
       /\ locals' = [ i |-> i, requests |-> requests ]
       /\ UNCHANGED result

handleBatchFormatCells ==
  /\ cmd = "batch_format_cells"
  /\ pc = "start"
  /\ BatchFormatStep(1, << >>)
  /\ UNCHANGED << cmd, input, backend >>
  /\ UNCHANGED waiting

handleBatchFormatCellsResolved ==
  /\ cmd = "batch_format_cells"
  /\ pc = "resolving"
  /\ Replied
  /\ LET entry == input.formatRequests[locals.i]
         r == Resolved(entry.range)
     IN  IF r.ok
         THEN BatchFormatStep(locals.i + 1,
                Append(locals.requests,
                       batchRepeatCellRequest(r.gridRange, entry.format)))
         ELSE Throw(r.err) /\ UNCHANGED locals
  /\ UNCHANGED << cmd, input, backend >>
  /\ UNCHANGED waiting

handleBatchFormatCellsReturn ==
  /\ cmd = "batch_format_cells"
  /\ pc = "updating"
  /\ Replied
  /\ ReturnLastReply
  /\ UNCHANGED << cmd, input, locals, backend >>
  /\ UNCHANGED waiting

(***************************************************************************)
(* sheets_insert_rows                                                      *)
(***************************************************************************)
\* largest number of rows to insert
MaxInsert == 2
\* largest number of rows of the values that fill inserted rows
MaxFillRows == 2

InsertRanges ==
  { Qualified(SheetOne, Cell(c, r)) : c \in 0..1, r \in { 1, MaxRow } }
    \cup { Qualified(SheetOne, Cell(0, 5)),
           Cell(1, 2),
           Qualified(Quoted(MySheet), Cell(0, 1)),
           Qualified(NoSuchSheet, Cell(0, 1)),
           Qualified(SheetOne, << "A" >>),
           Corners(<< "B" >>, << "B" >>) }

InitInsertRows ==
  /\ cmd = "insert_rows"
  /\ input \in [ accessToken : AccessTokens,
                 range : InsertRanges,
                 rows : 1..MaxInsert,
                 position : { "BEFORE", "AFTER" },
                 values : Payloads(MaxFillRows, MaxRowLen) ]

\* the mutant: BEFORE and AFTER exchanged
insertStartIndexSwapped(position, anchorRowIndex) ==
  IF position = "BEFORE" THEN anchorRowIndex + 1 ELSE anchorRowIndex

insertStartIndex(position, anchorRowIndex) ==
  IF position = "AFTER" THEN anchorRowIndex + 1 ELSE anchorRowIndex

insertDimensionRequest(sheetId, startIndex, endIndex) ==
  [ kind |-> "insertDimension",
    range |-> [ sheetId |-> sheetId, dimension |-> "ROWS",
                startIndex |-> startIndex, endIndex |-> endIndex ] ]

\* the A1 text of the range the values are written to
insertUpdateRange(sheetName, startIndex, anchorColumnIndex, values) ==
  LET updateStartRow == startIndex + 1
      updateEndRow == updateStartRow + Len(values) - 1
      startColumn == indexToColumn(anchorColumnIndex)
      endColumn == indexToColumn(
        anchorColumnIndex + MaxOf([ i \in DOMAIN values |-> Len(values[i]) ]) - 1)
      cells == Corners(startColumn \o NumText(updateStartRow),
                       endColumn \o NumText(updateEndRow))
  IN  IF sheetName # << >> THEN Qualified(Quoted(sheetName), cells) ELSE cells

handleInsertRows ==
  /\ cmd = "insert_rows"
  /\ pc = "start"
  /\ BeginResolve(input.range, "resolving")
  /\ UNCHANGED << cmd, input, locals, backend >>
  /\ UNCHANGED waiting

handleInsertRowsResolved ==
  /\ cmd = "insert_rows"
  /\ pc = "resolving"
  /\ Replied
  /\ LET r == Resolved(input.range)
         anchorRowIndex == Coalesce(r.gridRange.startRowIndex, 0)
         anchorColumnIndex == Coalesce(r.gridRange.startColumnIndex, 0)
         startIndex == insertStartIndex(input.position, anchorRowIndex)
         endIndex == startIndex + input.rows
     IN  IF r.ok
         THEN /\ BatchUpdate(<< insertDimensionRequest(
                                  r.gridRange.sheetId, startIndex, endIndex) >>)
              /\ pc' = "inserting"
              /\ locals' = [ sheetName |-> extractSheetName(input.range).sheetName,
                             anchorRowIndex |-> anchorRowIndex,
                             anchorColumnIndex |-> anchorColumnIndex,
                             startIndex |-> startIndex ]
              /\ UNCHANGED result
         ELSE Throw(r.err) /\ UNCHANGED locals
  /\ UNCHANGED << cmd, input, backend >>
  /\ UNCHANGED waiting

\* the mutant: the values are written whether or not the rows were inserted
handleInsertRowsInsertedUnchecked ==
  /\ cmd = "insert_rows"
  /\ pc = "inserting"
  /\ Replied
  /\ IF Len(input.values) > 0
     THEN /\ Dispatch("values.update",
                [ range |-> insertUpdateRange(locals.sheetName, locals.startIndex,
                                              locals.anchorColumnIndex, input.values),
                  values |-> input.values ])
          /\ pc' = "filling"
          /\ UNCHANGED result
     ELSE /\ Return(formatToolResponse)
          /\ UNCHANGED calls
  /\ UNCHANGED << cmd, input, locals, backend >>
  /\ UNCHANGED waiting

handleInsertRowsInserted ==
  /\ cmd = "insert_rows"
  /\ pc = "inserting"
  /\ Replied
  /\ IF LastCall.status = "failed"
     THEN Throw(BackendError(LastCall.code))
     ELSE IF Len(input.values) > 0
     THEN /\ Dispatch("values.update",
                [ range |-> insertUpdateRange(locals.sheetName, locals.startIndex,
                                              locals.anchorColumnIndex, input.values),
                  values |-> input.values ])
          /\ pc' = "filling"
          /\ UNCHANGED result
     ELSE /\ Return(formatToolResponse)
          /\ UNCHANGED calls
  /\ UNCHANGED << cmd, input, locals, backend >>
  /\ UNCHANGED waiting

handleInsertRowsReturn ==
  /\ cmd = "insert_rows"
  /\ pc = "filling"
  /\ Replied
  /\ ReturnLastReply
  /\ UNCHANGED << cmd, input, locals, backend >>
  /\ UNCHANGED waiting

(***************************************************************************)
(* sheets_create_chart                                                     *)
(***************************************************************************)
\* largest number of series of a chart
MaxSeries == 2

\* the legend positions given; the empty text is "no legend input"
LegendInputs == { << >>, RightText, RightText \o LegendSuffix, NoLegend }

EndsWith(t, suffix) ==
  Len(t) >= Len(suffix) /\ SubSeq(t, Len(t) - Len(suffix) + 1, Len(t)) = suffix

\* create chart's legend position: the suffix is appended when it is missing
createLegendPosition(position) ==
  IF position # << >>
  THEN IF ~EndsWith(position, LegendSuffix) /\ position # NoLegend
       THEN position \o LegendSuffix
       ELSE position
  ELSE BottomLegend

SeriesRanges ==
  { Qualified(SheetOne, Corners(Cell(1, 2), Cell(1, 3))),
    Corners(Cell(1, 2), Cell(1, 3)),
    Qualified(Quoted(MySheet), Corners(Cell(2, 1), Cell(2, 3))),
    Qualified(NoSuchSheet, Corners(Cell(1, 2), Cell(1, 3))),
    Qualified(SheetOne, Cell(1, 2)),
    Qualified(SheetOne, Corners(<< "B" >>, << "B" >>)),
    Qualified(SheetOne, << "B" >>) }

\* the empty text is "no domainRange"
DomainRanges ==
  { << >>,
    Qualified(Quoted(MySheet), Corners(Cell(3, 1), Cell(3, 2))),
    Qualified(NoSuchSheet, Corners(Cell(0, 1), Cell(0, 2))) }

\* position.overlayPosition.anchorCell.sheetId of the inputs
AnchorSheetIds == { 7 }

InitCreateChart ==
  /\ cmd = "create_chart"
  /\ \E n \in 0..MaxSeries :
       input \in [ accessToken : AccessTokens,
                   chartType : { "COLUMN", "PIE" },
                   series : [ 1..n -> [ sourceRange : SeriesRanges ] ],
                   domainRange : DomainRanges,
                   legend : LegendInputs,
                   anchorSheetId : AnchorSheetIds ]

\* the chart spec before the series are parsed
createChartSpec(in) ==
  IF in.chartType = "PIE"
  THEN [ family |-> "pieChart",
         chartType |-> "PIE",
         legendPosition |-> createLegendPosition(in.legend),
         domains |-> << >>,
         series |-> << >> ]
  ELSE [ family |-> "basicChart",
         chartType |-> in.chartType,
         legendPosition |-> createLegendPosition(in.legend),
         domains |-> << >>,
         series |-> << >> ]

addChartRequest(spec, in) ==
  [ kind |-> "addChart", spec |-> spec, anchorSheetId |-> in.anchorSheetId ]

\* a getSheetId inside create chart: the lookup is only made for a qualified range
ChartLookup(next) ==
  /\ Dispatch("spreadsheets.get", [ fields |-> "sheets" ])
  /\ pc' = next
  /\ UNCHANGED result

ChartThrow(err) == Throw(err)

ChartSend(spec) ==
  /\ BatchUpdate(<< addChartRequest(spec, input) >>)
  /\ pc' = "updating"
  /\ UNCHANGED result

\* the mutant: the labels are taken from the series' own column
derivedDomainRangeOwnColumn(clean) ==
  LET match == TwoCornerMatch(clean, FALSE)
  IN  [ ok |-> match.ok,
        range |-> Corners(match.g1 \o match.g2, match.g3 \o match.g4) ]

\* the range "A<r1>:A<r2>" derived from the first row numbers found in `clean'
derivedDomainRange(clean) ==
  LET match == TwoCornerMatch(clean, FALSE)
  IN  [ ok |-> match.ok,
        range |-> Corners(<< "A" >> \o match.g2, << "A" >> \o match.g4) ]

\* pie chart: the first series and its derived domain, on sheet sheetId
PieFinish(spec, sheetId) ==
  LET clean == extractSheetName(input.series[1].sourceRange).range
      gridRange == parseRange(clean, sheetId)
      d == derivedDomainRange(clean)
      withSeries == [ spec EXCEPT !.series = << [ sourceRange |-> gridRange ] >> ]
      withDomain ==
        IF d.ok
        THEN [ withSeries EXCEPT
                 !.domains = << [ sourceRange |-> parseRange(d.range, sheetId) ] >> ]
        ELSE withSeries
  IN  IF ~gridRange.ok THEN ChartThrow(Thrown("Invalid range"))
      ELSE IF d.ok /\ ~parseRange(d.range, sheetId).ok
      THEN ChartThrow(Thrown("Invalid range"))
      ELSE ChartSend(withDomain)

\* basic chart: the domain on sheet sheetId, explicit or derived from the
\* first series
DomainFinish(spec, sheetId) ==
  LET explicit == input.domainRange # << >>
      text == IF explicit THEN input.domainRange ELSE input.series[1].sourceRange
      clean == extractSheetName(text).range
      d == derivedDomainRange(clean)
      g == IF explicit THEN parseRange(clean, sheetId)
           ELSE parseRange(d.range, sheetId)
  IN  IF explicit \/ d.ok
      THEN IF g.ok
           THEN ChartSend([ spec EXCEPT !.domains = << [ sourceRange |-> g ] >> ])
           ELSE ChartThrow(Thrown("Invalid range"))
      ELSE ChartSend(spec)

handleCreateChart ==
  /\ cmd = "create_chart"
  /\ pc = "start"
  /\ LET spec == createChartSpec(input)
         first == extractSheetName(input.series[1].sourceRange)
     IN  IF Len(input.series) > 0
         THEN IF ~first.ok
              THEN ChartThrow(Thrown("Invalid range")) /\ UNCHANGED locals
              ELSE IF first.sheetName # << >>
              THEN /\ ChartLookup(IF spec.family = "pieChart" THEN "pie_lookup"
                                  ELSE "first_lookup")
                   /\ locals' = [ spec |-> spec, i |-> 1,
                                  actualSheetId |-> input.anchorSheetId ]
              ELSE IF spec.family = "pieChart"
              THEN PieFinish(spec, input.anchorSheetId) /\ UNCHANGED locals
              ELSE /\ pc' = "series"
                   /\ locals' = [ spec |-> spec, i |-> 1,
                                  actualSheetId |-> input.anchorSheetId ]
                   /\ UNCHANGED << calls, result >>
         ELSE ChartSend(spec) /\ UNCHANGED locals
  /\ UNCHANGED << cmd, input, backend >>
  /\ UNCHANGED waiting

createChartFirstResolved ==
  /\ cmd = "create_chart"
  /\ pc = "first_lookup"
  /\ Replied
  /\ LET name == extractSheetName(input.series[1].sourceRange).sheetName
     IN  IF LastCall.status = "failed"
         THEN ChartThrow(BackendError(LastCall.code)) /\ UNCHANGED locals
         ELSE IF ~getSheetIdFound(LastCall.data.sheets, name)
         THEN ChartThrow(Thrown("Sheet not found")) /\ UNCHANGED locals
         ELSE /\ pc' = "series"
              /\ locals' = [ locals EXCEPT !.actualSheetId =
                               getSheetIdValue(LastCall.data.sheets, name) ]
              /\ UNCHANGED << calls, result >>
  /\ UNCHANGED << cmd, input, backend >>
  /\ UNCHANGED waiting

\* series i has been parsed to gridRange: push it and go on
SeriesPushed(gridRange) ==
  /\ locals' = [ locals EXCEPT
                   !.spec.series = Append(@, [ sourceRange |-> gridRange ]),
                   !.i = @ + 1 ]
  /\ pc' = IF locals.i < Len(input.series) THEN "series" ELSE "domain"
  /\ UNCHANGED << calls, result >>

createChartSeries ==
  /\ cmd = "create_chart"
  /\ pc = "series"
  /\ LET x == extractSheetName(input.series[locals.i].sourceRange)
         g == parseRange(x.range, locals.actualSheetId)
     IN  IF ~x.ok THEN ChartThrow(Thrown("Invalid range")) /\ UNCHANGED locals
         ELSE IF x.sheetName # << >>
         THEN ChartLookup("series_lookup") /\ UNCHANGED locals
         ELSE IF g.ok THEN SeriesPushed(g)
         ELSE ChartThrow(Thrown("Invalid range")) /\ UNCHANGED locals
  /\ UNCHANGED << cmd, input, backend >>
  /\ UNCHANGED waiting

createChartSeriesResolved ==
  /\ cmd = "create_chart"
  /\ pc = "series_lookup"
  /\ Replied
  /\ LET r == Resolved(input.series[locals.i].sourceRange)
     IN  IF r.ok THEN SeriesPushed(r.gridRange)
         ELSE ChartThrow(r.err) /\ UNCHANGED locals
  /\ UNCHANGED << cmd, input, backend >>
  /\ UNCHANGED waiting

\* the mutant: the sheet of the first series is remembered, and a domain derived
\* from the first series is placed on it without a second lookup
createChartDomainCached ==
  /\ cmd = "create_chart"
  /\ pc = "domain"
  /\ LET text == IF input.domainRange # << >> THEN input.domainRange
                 ELSE input.series[1].sourceRange
         x == extractSheetName(text)
     IN  IF ~x.ok THEN ChartThrow(Thrown("Invalid range"))
         ELSE IF x.sheetName # << >> /\ input.domainRange # << >>
         THEN ChartLookup("domain_lookup")
         ELSE DomainFinish(locals.spec, locals.actualSheetId)
  /\ UNCHANGED << cmd, input, locals, backend >>
  /\ UNCHANGED waiting

createChartDomain ==
  /\ cmd = "create_chart"
  /\ pc = "domain"
  /\ LET text == IF input.domainRange # << >> THEN input.domainRange
                 ELSE input.series[1].sourceRange
         x == extractSheetName(text)
     IN  IF ~x.ok THEN ChartThrow(Thrown("Invalid range"))
         ELSE IF x.sheetName # << >> THEN ChartLookup("domain_lookup")
         ELSE DomainFinish(locals.spec, locals.actualSheetId)
  /\ UNCHANGED << cmd, input, locals, backend >>
  /\ UNCHANGED waiting

createChartDomainResolved ==
  /\ cmd = "create_chart"
  /\ pc = "domain_lookup"
  /\ Replied
  /\ LET text == IF input.domainRange # << >> THEN input.domainRange
                 ELSE input.series[1].sourceRange
         name == extractSheetName(text).sheetName
     IN  IF LastCall.status = "failed"
         THEN ChartThrow(BackendError(LastCall.code))
         ELSE IF ~getSheetIdFound(LastCall.data.sheets, name)
         THEN ChartThrow(Thrown("Sheet not found"))
         ELSE DomainFinish(locals.spec, getSheetIdValue(LastCall.data.sheets, name))
  /\ UNCHANGED << cmd, input, locals, backend >>
  /\ UNCHANGED waiting

createChartPieResolved ==
  /\ cmd = "create_chart"
  /\ pc = "pie_lookup"
  /\ Replied
  /\ LET name == extractSheetName(input.series[1].sourceRange).sheetName
     IN  IF LastCall.status = "failed"
         THEN ChartThrow(BackendError(LastCall.code))
         ELSE IF ~getSheetIdFound(LastCall.data.sheets, name)
         THEN ChartThrow(Thrown("Sheet not found"))
         ELSE PieFinish(locals.spec, getSheetIdValue(LastCall.data.sheets, name))
  /\ UNCHANGED << cmd, input, locals, backend >>
  /\ UNCHANGED waiting

createChartReturn ==
  /\ cmd = "create_chart"
  /\ pc = "updating"
  /\ Replied
  /\ ReturnLastReply
  /\ UNCHANGED << cmd, input, locals, backend >>
  /\ UNCHANGED waiting

(***************************************************************************)
(* sheets_update_chart                                                     *)
(***************************************************************************)
ChartIds == { 1, 9 }

\* the objects of objs, and each of them with the optional key set to a value
WithOption(objs, key, values) ==
  objs \cup { Put(o, key, v) : o \in objs, v \in values }

UpdateChartInputs ==
  WithOption(WithOption(WithOption(WithOption(
    { [ accessToken |-> t, chartId |-> c ] : t \in AccessTokens, c \in ChartIds },
    "title", { "Costs" }),
    "chartType", { "PIE", "BAR" }),
    "legend", { [ position |-> RightText ], [ position |-> << >> ] }),
    "series", { << [ sourceRange |->
                       Qualified(SheetOne, Corners(Cell(1, 2), Cell(1, 3))) ] >>,
                << [ sourceRange |->
                       Qualified(SheetOne, Corners(Cell(1, 2), Cell(1, 3))) ],
                   [ sourceRange |->
                       Qualified(Quoted(MySheet), Corners(<< "C" >>, << "C" >>)) ] >> })

InitUpdateChart ==
  /\ cmd = "update_chart"
  /\ input \in UpdateChartInputs

RECURSIVE FlatCharts(_)
FlatCharts(sheets) ==
  IF Len(sheets) = 0 THEN << >>
  ELSE Head(sheets).charts \o FlatCharts(Tail(sheets))

\* the charts with the given id, in the order the search loop meets them
ChartsWithId(sheets, id) ==
  SelectSeq(FlatCharts(sheets), LAMBDA c : c.chartId = id)

\* delete obj[key]
Delete(obj, key) == [ k \in DOMAIN obj \ { key } |-> obj[k] ]

\* obj?.[key] || default
OrElse(obj, key, default) == IF Has(obj, key) THEN obj[key] ELSE default

\* obj?.[key] as an object
Sub(obj, key) == OrElse(obj, key, EmptyObject)

\* legend?.position || 'BOTTOM_LEGEND'
updateLegendPosition(in) ==
  IF Has(in, "legend") /\ in.legend.position # << >>
  THEN in.legend.position
  ELSE BottomLegend

\* title, subtitle, backgroundColor, altText: copied when defined
withTexts(spec, in) ==
  CopyIfPresent(CopyIfPresent(CopyIfPresent(CopyIfPresent(spec,
    in, "title"),
    in, "subtitle"),
    in, "backgroundColor"),
    in, "altText")

\* the switch on chartType: the chart-family sub-object is built anew
withChartType(spec, in, current) ==
  IF ~Has(in, "chartType") THEN spec
  ELSE IF in.chartType = "PIE"
  THEN Delete(Put(spec, "pieChart",
                  [ legendPosition |-> updateLegendPosition(in),
                    domain |-> OrElse(Sub(current.spec, "pieChart"), "domain",
                                      EmptyObject),
                    series |-> OrElse(Sub(current.spec, "pieChart"), "series",
                                      EmptyObject) ]),
              "basicChart")
  ELSE Delete(Put(spec, "basicChart",
                  [ chartType |-> in.chartType,
                    legendPosition |-> updateLegendPosition(in),
                    axis |-> OrElse(Sub(current.spec, "basicChart"), "axis", << >>),
                    domains |-> OrElse(Sub(current.spec, "basicChart"), "domains",
                                       << >>),
                    series |-> OrElse(Sub(current.spec, "basicChart"), "series",
                                      << >>) ]),
              "pieChart")

withLegend(spec, in) ==
  IF ~Has(in, "legend") THEN spec
  ELSE IF Has(spec, "basicChart")
  THEN Put(spec, "basicChart",
           Put(spec.basicChart, "legendPosition", updateLegendPosition(in)))
  ELSE IF Has(spec, "pieChart")
  THEN Put(spec, "pieChart",
           Put(spec.pieChart, "legendPosition", updateLegendPosition(in)))
  ELSE spec

\* one entry of the series list as update chart writes it
updatedSeries(in, current, series) ==
  PutIf([ sourceRange |->
            GridRange(IF Has(in, "position") /\ in.position.anchorSheetId # 0
                      THEN in.position.anchorSheetId
                      ELSE current.position.anchorSheetId,
                      0, 100, 0, 1),
          targetAxis |-> OrElse(series, "targetAxis", "LEFT_AXIS") ],
        Has(series, "type") \/ Has(in, "chartType"),
        "type",
        IF Has(series, "type") THEN series.type ELSE in.chartType)

withSeries(spec, in, current) ==
  IF Has(in, "series") /\ Has(spec, "basicChart")
  THEN Put(spec, "basicChart",
           Put(spec.basicChart, "series",
               [ i \in DOMAIN in.series |->
                   updatedSeries(in, current, in.series[i]) ]))
  ELSE spec

updatedChartSpec(in, current) ==
  withSeries(withLegend(withChartType(withTexts(current.spec, in), in, current), in),
             in, current)

updateChartRequests(in, current) ==
  << [ kind |-> "updateEmbeddedObjectPosition",
       objectId |-> in.chartId,
       newPosition |-> OrElse(in, "position", current.position),
       fields |-> "position" ],
     [ kind |-> "updateChartSpec",
       chartId |-> in.chartId,
       spec |-> updatedChartSpec(in, current) ] >>

\* the mutant: the read is not awaited, the write goes out with it
handleUpdateChartBlind ==
  /\ cmd = "update_chart"
  /\ pc = "start"
  /\ calls' = << Request("spreadsheets.get", [ fields |-> "*" ]),
                 Request("spreadsheets.batchUpdate",
                         [ requests |-> updateChartRequests(input, ExistingChart) ]) >>
  /\ pc' = "updating"
  /\ UNCHANGED << cmd, input, locals, result, backend >>
  /\ UNCHANGED waiting

handleUpdateChart ==
  /\ cmd = "update_chart"
  /\ pc = "start"
  /\ Dispatch("spreadsheets.get", [ fields |-> "*" ])
  /\ pc' = "reading"
  /\ UNCHANGED << cmd, input, locals, result, backend >>
  /\ UNCHANGED waiting

\* `Chart with ID ${chartId} not found`
chartNotFoundMessage(chartId) ==
  "Chart with ID " \o ToString(chartId) \o " not found"

\* the mutant: when no chart has the id, the first chart of the spreadsheet is
\* taken
updateChartFoundOrFirst(found) ==
  /\ BatchUpdate(updateChartRequests(input,
                   IF Len(found) = 0 THEN ExistingChart ELSE found[1]))
  /\ pc' = "updating"
  /\ UNCHANGED result

\* the spreadsheet has been read: the chart is looked for among `found'
updateChartFound(found) ==
  IF Len(found) = 0
  THEN Throw(Thrown(chartNotFoundMessage(input.chartId)))
  ELSE /\ BatchUpdate(updateChartRequests(input, found[1]))
       /\ pc' = "updating"
       /\ UNCHANGED result

handleUpdateChartRead ==
  /\ cmd = "update_chart"
  /\ pc = "reading"
  /\ Replied
  /\ IF LastCall.status = "failed"
     THEN Throw(BackendError(LastCall.code))
     ELSE updateChartFound(ChartsWithId(LastCall.data.sheets, input.chartId))
  /\ UNCHANGED << cmd, input, locals, backend >>
  /\ UNCHANGED waiting

handleUpdateChartReturn ==
  /\ cmd = "update_chart"
  /\ pc = "updating"
  /\ Replied
  /\ ReturnLastReply
  /\ UNCHANGED << cmd, input, locals, backend >>
  /\ UNCHANGED waiting

(***************************************************************************)
(* sheets_insert_date                                                      *)
(***************************************************************************)
\* date texts: a relative date, an ISO date, and one no rule of parseDate reads
DateInputs == { "today", "2024-03-05", "soon" }

\* TRUE when parseDate throws
parseDateThrows(date) == date \notin { "today", "2024-03-05" }

InsertDateRanges == { Cell(0, 1), Qualified(Quoted(MySheet), Cell(1, 2)) }

InitInsertDate ==
  /\ cmd = "insert_date"
  /\ input \in [ accessToken : AccessTokens,
                 range : InsertDateRanges,
                 date : DateInputs,
                 format : { "locale", "iso" },
                 useEUFormat : BOOLEAN ]

\* the number-format request that follows the write for the locale format
insertDateFormatRequest(in) ==
  [ kind |-> "repeatCell",
    range |-> GridRange(0, 0, 1, 0, 1),
    cell |-> [ userEnteredFormat |->
                 [ numberFormat |->
                     [ type |-> "DATE",
                       pattern |-> IF in.useEUFormat THEN "d.M.yyyy"
                                   ELSE "M/d/yyyy" ] ] ],
    fields |-> "userEnteredFormat.numberFormat" ]

handleInsertDate ==
  /\ cmd = "insert_date"
  /\ pc = "start"
  /\ IF parseDateThrows(input.date)
     THEN Throw(Thrown("Unable to parse date"))
     ELSE /\ Dispatch("values.update",
                      [ range |-> input.range,
                        values |-> << << input.date >> >> ])
          /\ pc' = "written"
          /\ UNCHANGED result
  /\ UNCHANGED << cmd, input, locals, backend >>
  /\ UNCHANGED waiting

handleInsertDateWritten ==
  /\ cmd = "insert_date"
  /\ pc = "written"
  /\ Replied
  /\ IF LastCall.status = "failed"
     THEN Throw(BackendError(LastCall.code))
     ELSE IF input.format = "locale"
     THEN /\ BatchUpdate(<< insertDateFormatRequest(input) >>)
          /\ pc' = "formatting"
          /\ UNCHANGED result
     ELSE /\ Return(formatToolResponse)
          /\ UNCHANGED calls
  /\ UNCHANGED << cmd, input, locals, backend >>
  /\ UNCHANGED waiting

\* the inner catch only logs: the command succeeds whatever the reply was
handleInsertDateFormatted ==
  /\ cmd = "insert_date"
  /\ pc = "formatting"
  /\ Replied
  /\ Return(formatToolResponse)
  /\ UNCHANGED << cmd, input, locals, calls, backend >>
  /\ UNCHANGED waiting

(***************************************************************************)
(* sheets_check_access                                                     *)
(***************************************************************************)
InitCheckAccess ==
  /\ cmd = "check_access"
  /\ input \in [ accessToken : AccessTokens,
                 spreadsheetId : { "sheet-1", "sheet-2" } ]

\* the texts of the report
SpreadsheetNotFound == "Spreadsheet not found. Check if the ID is correct."

AccessDenied ==
  "Access denied. The spreadsheet needs to be shared with your service account."

ReadWriteAccess == "You have full read/write access to this spreadsheet."

ReadOnlyAccess ==
  "You have read-only access to this spreadsheet. To write data, the spreadsheet owner needs to grant you Editor permissions."

ShareAdvice ==
  "Share the spreadsheet with your service account email and grant appropriate permissions."

\* the object returned when the metadata read failed
checkAccessDenied(err) ==
  [ done |-> TRUE,
    error |-> IF err.code = 404 THEN SpreadsheetNotFound
              ELSE IF err.code = 403 THEN AccessDenied
              ELSE IF err.message # "" THEN err.message
              ELSE "Unknown error occurred",
    code |-> 0,
    permissions |-> [ canRead |-> FALSE, canWrite |-> FALSE,
                      canShare |-> FALSE, isOwner |-> FALSE ],
    recommendation |-> ShareAdvice ]

\* the object returned after the write probe
checkAccessReport(canWrite) ==
  [ done |-> TRUE,
    error |-> "",
    code |-> 0,
    permissions |-> [ canRead |-> TRUE, canWrite |-> canWrite,
                      canShare |-> FALSE, isOwner |-> FALSE ],
    recommendation |-> IF canWrite THEN ReadWriteAccess ELSE ReadOnlyAccess ]

\* the mutant: only a 403 from the probe denies write access
probedCanWriteUnless403(call) ==
  IF call.status = "ok" THEN TRUE
  ELSE call.code # 403

\* permissions.canWrite after the probe's reply
probedCanWrite(call) ==
  IF call.status = "ok" THEN TRUE
  ELSE IF call.code = 403 THEN FALSE
  ELSE call.code # 400

handleCheckAccess ==
  /\ cmd = "check_access"
  /\ pc = "start"
  /\ Dispatch("spreadsheets.get", [ fields |-> "properties.title,sheets.properties" ])
  /\ pc' = "reading"
  /\ UNCHANGED << cmd, input, locals, result, backend >>
  /\ UNCHANGED waiting

handleCheckAccessRead ==
  /\ cmd = "check_access"
  /\ pc = "reading"
  /\ Replied
  /\ IF LastCall.status = "failed"
     THEN /\ Return(checkAccessDenied(BackendError(LastCall.code)))
          /\ UNCHANGED calls
     ELSE /\ Dispatch("values.update",
                      [ range |-> Cell(0, 1), values |-> << << "" >> >>,
                        validateOnly |-> TRUE ])
          /\ pc' = "probing"
          /\ UNCHANGED result
  /\ UNCHANGED << cmd, input, locals, backend >>
  /\ UNCHANGED waiting

handleCheckAccessProbed ==
  /\ cmd = "check_access"
  /\ pc = "probing"
  /\ Replied
  /\ Return(checkAccessReport(probedCanWrite(LastCall)))
  /\ UNCHANGED << cmd, input, locals, calls, backend >>
  /\ UNCHANGED waiting

(***************************************************************************)
(* sheets_batch_update_values, sheets_batch_get_values, sheets_append_values *)
(***************************************************************************)
ValueRanges == { Qualified(SheetOne, Cell(0, 1)), Corners(Cell(0, 1), Cell(1, 2)) }

InitBatchUpdateValues ==
  /\ cmd = "batch_update_values"
  /\ \E n \in 1..MaxBatch :
       input \in [ accessToken : AccessTokens,
                   data : [ 1..n -> [ range : ValueRanges,
                                      values : Payloads(1, 1) ] ] ]

handleBatchUpdateValues ==
  /\ cmd = "batch_update_values"
  /\ pc = "start"
  /\ Dispatch("values.batchUpdate",
              [ data |-> [ i \in DOMAIN input.data |->
                             [ range |-> input.data[i].range,
                               values |-> input.data[i].values ] ] ])
  /\ pc' = "updating"
  /\ UNCHANGED << cmd, input, locals, result, backend >>
  /\ UNCHANGED waiting

handleBatchUpdateValuesReturn ==
  /\ cmd = "batch_update_values"
  /\ pc = "updating"
  /\ Replied
  /\ ReturnLastReply
  /\ UNCHANGED << cmd, input, locals, backend >>
  /\ UNCHANGED waiting

InitBatchGetValues ==
  /\ cmd = "batch_get_values"
  /\ \E n \in 1..MaxBatch : input \in [ accessToken : AccessTokens,
                                        ranges : [ 1..n -> ValueRanges ] ]

handleBatchGetValues ==
  /\ cmd = "batch_get_values"
  /\ pc = "start"
  /\ Dispatch("values.batchGet", [ ranges |-> input.ranges ])
  /\ pc' = "reading"
  /\ UNCHANGED << cmd, input, locals, result, backend >>
  /\ UNCHANGED waiting

handleBatchGetValuesReturn ==
  /\ cmd = "batch_get_values"
  /\ pc = "reading"
  /\ Replied
  /\ ReturnLastReply
  /\ UNCHANGED << cmd, input, locals, backend >>
  /\ UNCHANGED waiting

InitAppendValues ==
  /\ cmd = "append_values"
  /\ input \in [ accessToken : AccessTokens,
                 range : ValueRanges, values : Payloads(MaxRows, 1) ]

handleAppendValues ==
  /\ cmd = "append_values"
  /\ pc = "start"
  /\ Dispatch("values.append", [ range |-> input.range, values |-> input.values ])
  /\ pc' = "appending"
  /\ UNCHANGED << cmd, input, locals, result, backend >>
  /\ UNCHANGED waiting

handleAppendValuesReturn ==
  /\ cmd = "append_values"
  /\ pc = "appending"
  /\ Replied
  /\ ReturnLastReply
  /\ UNCHANGED << cmd, input, locals, backend >>
  /\ UNCHANGED waiting

(***************************************************************************)
(* sheets_batch_delete_sheets                                              *)
(***************************************************************************)
\* the sheet ids given: the two sheets of the spreadsheet and one it lacks
DeletableSheetIds == { 0, 7, 99 }

InitBatchDeleteSheets ==
  /\ cmd = "batch_delete_sheets"
  /\ \E n \in 1..MaxBatch : input \in [ accessToken : AccessTokens,
                                        sheetIds : [ 1..n -> DeletableSheetIds ] ]

\* the mutant: the requests are built from the last id to the first
deleteSheetRequestsReversed(sheetIds) ==
  [ i \in DOMAIN sheetIds |->
      [ kind |-> "deleteSheet", sheetId |-> sheetIds[Len(sheetIds) + 1 - i] ] ]

\* sheetIds.map((sheetId) => ({ deleteSheet: { sheetId } }))
deleteSheetRequests(sheetIds) ==
  [ i \in DOMAIN sheetIds |-> [ kind |-> "deleteSheet", sheetId |-> sheetIds[i] ] ]

handleBatchDeleteSheets ==
  /\ cmd = "batch_delete_sheets"
  /\ pc = "start"
  /\ BatchUpdate(deleteSheetRequests(input.sheetIds))
  /\ pc' = "updating"
  /\ UNCHANGED << cmd, input, locals, result, backend >>
  /\ UNCHANGED waiting

handleBatchDeleteSheetsReturn ==
  /\ cmd = "batch_delete_sheets"
  /\ pc = "updating"
  /\ Replied
  /\ ReturnLastReply
  /\ UNCHANGED << cmd, input, locals, backend >>
  /\ UNCHANGED waiting

(***************************************************************************)
(* sheets_update_sheet_properties                                          *)
(***************************************************************************)
\* largest number of properties inside one gridProperties object
MaxGridKeys == 2

InitUpdateSheetProperties ==
  /\ cmd = "update_sheet_properties"
  /\ input \in
       WithOption(WithOption(WithOption(
         { [ accessToken |-> t, sheetId |-> 7 ] : t \in AccessTokens },
         "title", { "Q1", "" }),
         "gridProperties",
         ObjectsOver({ GridPropertyKeys[i] : i \in DOMAIN GridPropertyKeys },
                     MaxGridKeys, 2)),
         "tabColor", { [ red |-> 1 ] })

\* the mutant: a gridProperties object is named in the mask as a whole
sheetPropertiesFieldsWhole(in) ==
  (IF Has(in, "title") THEN << "title" >> ELSE << >>)
    \o (IF Has(in, "gridProperties") THEN << "gridProperties" >> ELSE << >>)
    \o (IF Has(in, "tabColor") THEN << "tabColor" >> ELSE << >>)

\* updateRequest.fields: the names pushed, in order; the request carries them
\* joined by commas, kept here as the list of the names joined
sheetPropertiesFields(in) ==
  LET present == IF Has(in, "gridProperties")
                 THEN SelectSeq(GridPropertyKeys,
                                LAMBDA k : Has(in.gridProperties, k))
                 ELSE << >>
  IN  (IF Has(in, "title") THEN << "title" >> ELSE << >>)
        \o [ i \in DOMAIN present |-> GridPath(present[i]) ]
        \o (IF Has(in, "tabColor") THEN << "tabColor" >> ELSE << >>)

\* updateRequest.properties
sheetPropertiesOf(in) ==
  CopyIfPresent(CopyIfPresent(CopyIfPresent(
    [ sheetId |-> in.sheetId ],
    in, "title"),
    in, "gridProperties"),
    in, "tabColor")

handleUpdateSheetProperties ==
  /\ cmd = "update_sheet_properties"
  /\ pc = "start"
  /\ IF Len(sheetPropertiesFields(input)) = 0
     THEN Throw(Thrown("No properties to update"))
     ELSE /\ BatchUpdate(<< [ kind |-> "updateSheetProperties",
                              properties |-> sheetPropertiesOf(input),
                              fields |-> sheetPropertiesFields(input) ] >>)
          /\ pc' = "updating"
          /\ UNCHANGED result
  /\ UNCHANGED << cmd, input, locals, backend >>
  /\ UNCHANGED waiting

handleUpdateSheetPropertiesReturn ==
  /\ cmd = "update_sheet_properties"
  /\ pc = "updating"
  /\ Replied
  /\ ReturnLastReply
  /\ UNCHANGED << cmd, input, locals, backend >>
  /\ UNCHANGED waiting

(***************************************************************************)
(* The specification.                                                      *)
(***************************************************************************)
Init ==
  /\ pc = "start"
  /\ waiting = << >>
  /\ locals = [ none |-> TRUE ]
  /\ calls = << >>
  /\ result = NoResult
  /\ backend = InitialBackend
  /\ \/ InitUpdateValues
     \/ InitFormatCells
     \/ InitUpdateBorders
     \/ InitMergeCells
     \/ InitUnmergeCells
     \/ InitBatchFormatCells
     \/ InitInsertRows
     \/ InitCreateChart
     \/ InitUpdateChart
     \/ InitInsertDate
     \/ InitCheckAccess
     \/ InitBatchUpdateValues
     \/ InitBatchGetValues
     \/ InitAppendValues
     \/ InitBatchDeleteSheets
     \/ InitUpdateSheetProperties

Next ==
  \/ BackendOk
  \/ BackendFail
  \/ handleUpdateValues
  \/ handleUpdateValuesReturn
  \/ formatCellsHandler
  \/ formatCellsResolved
  \/ formatCellsReturn
  \/ updateBordersHandler
  \/ updateBordersResolved
  \/ updateBordersReturn
  \/ mergeCellsHandler
  \/ mergeCellsResolved
  \/ mergeCellsReturn
  \/ unmergeCellsHandler
  \/ unmergeCellsResolved
  \/ unmergeCellsReturn
  \/ handleBatchFormatCells
  \/ handleBatchFormatCellsResolved
  \/ handleBatchFormatCellsReturn
  \/ handleInsertRows
  \/ handleInsertRowsResolved
  \/ handleInsertRowsInserted
  \/ handleInsertRowsReturn
  \/ handleCreateChart
  \/ createChartFirstResolved
  \/ createChartSeries
  \/ createChartSeriesResolved
  \/ createChartDomain
  \/ createChartDomainResolved
  \/ createChartPieResolved
  \/ createChartReturn
  \/ handleUpdateChart
  \/ handleUpdateChartRead
  \/ handleUpdateChartReturn
  \/ handleInsertDate
  \/ handleInsertDateWritten
  \/ handleInsertDateFormatted
  \/ handleCheckAccess
  \/ handleCheckAccessRead
  \/ handleCheckAccessProbed
  \/ handleBatchUpdateValues
  \/ handleBatchUpdateValuesReturn
  \/ handleBatchGetValues
  \/ handleBatchGetValuesReturn
  \/ handleAppendValues
  \/ handleAppendValuesReturn
  \/ handleBatchDeleteSheets
  \/ handleBatchDeleteSheetsReturn
  \/ handleUpdateSheetProperties
  \/ handleUpdateSheetPropertiesReturn

Spec == Init /\ [][Next]_vars

(***************************************************************************)
(* Two invocations on one event loop.  The variables cmd .. result hold    *)
(* the invocation that is running; `waiting' holds the one that is parked  *)
(* at an await (or has not started, or has returned).  The handlers are    *)
(* the ones above: they only ever see the running invocation.              *)
(***************************************************************************)
\* the invocations a caller with the given token makes
InvocationsOf(token) ==
  { [ cmd |-> "update_values",
      input |-> [ accessToken |-> token,
                  range |-> Qualified(SheetOne, Corners(Cell(0, 1), Cell(1, 2))),
                  values |-> v ] ] : v \in { << Row(1), Row(1) >>, << Row(1) >> } }
    \cup
  { [ cmd |-> "merge_cells",
      input |-> [ accessToken |-> token, range |-> r, mergeType |-> "MERGE_ALL" ] ] :
      r \in { Qualified(Quoted(MySheet), Corners(Cell(1, 2), Cell(2, 3))),
              Qualified(SheetOne, Cell(0, 1)) } }
    \cup
  { [ cmd |-> "batch_delete_sheets",
      input |-> [ accessToken |-> token, sheetIds |-> << 7 >> ] ] }

\* an invocation that has not started
Parked(invocation) ==
  [ cmd |-> invocation.cmd, input |-> invocation.input, pc |-> "start",
    locals |-> [ none |-> TRUE ], calls |-> << >>, result |-> NoResult ]

\* the running invocation as a record
Running ==
  [ cmd |-> cmd, input |-> input, pc |-> pc, locals |-> locals,
    calls |-> calls, result |-> result ]

InitTwo ==
  /\ pc = "start"
  /\ locals = [ none |-> TRUE ]
  /\ calls = << >>
  /\ result = NoResult
  /\ backend = InitialBackend
  /\ \E a \in InvocationsOf(FirstToken), b \in InvocationsOf(SecondToken) :
       /\ cmd = a.cmd
       /\ input = a.input
       /\ waiting = << Parked(b) >>

\* the event loop resumes the other invocation: the running one is between
\* two steps, at an await, not started or returned
Switch ==
  /\ waiting # << >>
  /\ cmd' = waiting[1].cmd
  /\ input' = waiting[1].input
  /\ pc' = waiting[1].pc
  /\ locals' = waiting[1].locals
  /\ calls' = waiting[1].calls
  /\ result' = waiting[1].result
  /\ waiting' = << Running >>
  /\ UNCHANGED backend

NextTwo ==
  \/ BackendOk
  \/ BackendFail
  \/ handleUpdateValues
  \/ handleUpdateValuesReturn
  \/ mergeCellsHandler
  \/ mergeCellsResolved
  \/ mergeCellsReturn
  \/ handleBatchDeleteSheets
  \/ handleBatchDeleteSheetsReturn
  \/ Switch

Interleaved == InitTwo /\ [][NextTwo]_vars

(***************************************************************************)
(* indexToColumn on its own: one call per column index.                    *)
(***************************************************************************)
InitIndexToColumn ==
  /\ cmd = "indexToColumn"
  /\ input \in [ index : 0 .. MaxColumnIndex ]
  /\ pc = "start"
  /\ locals = [ none |-> TRUE ]
  /\ calls = << >>
  /\ result = NoResult
  /\ backend = InitialBackend
  /\ waiting = << >>

indexToColumnCall ==
  /\ cmd = "indexToColumn"
  /\ pc = "start"
  /\ result' = [ column |-> indexToColumn(input.index) ]
  /\ pc' = "done"
  /\ UNCHANGED << cmd, input, locals, calls, backend >>
  /\ UNCHANGED waiting

NextColumns ==
  \/ indexToColumnCall

Columns == InitIndexToColumn /\ [][NextColumns]_vars

(***************************************************************************)
(* Two update chart invocations on the same chart, on one event loop.      *)
(***************************************************************************)
\* the two updates: each names one text of the chart the other does not name
TitleUpdate == [ accessToken |-> FirstToken, chartId |-> 1, title |-> "Costs" ]

SubtitleUpdate == [ accessToken |-> SecondToken, chartId |-> 1, subtitle |-> "2024" ]

InitTwoUpdates ==
  /\ pc = "start"
  /\ locals = [ none |-> TRUE ]
  /\ calls = << >>
  /\ result = NoResult
  /\ backend = InitialBackend
  /\ cmd = "update_chart"
  /\ \E first \in { TitleUpdate, SubtitleUpdate } :
       /\ input = first
       /\ waiting = << Parked([ cmd |-> "update_chart",
                                input |-> IF first = TitleUpdate THEN SubtitleUpdate
                                          ELSE TitleUpdate ]) >>

NextTwoUpdates ==
  \/ BackendOk
  \/ BackendFail
  \/ handleUpdateChart
  \/ handleUpdateChartRead
  \/ handleUpdateChartReturn
  \/ Switch

ChartUpdates == InitTwoUpdates /\ [][NextTwoUpdates]_vars

(***************************************************************************)
(* Claims.                                                                 *)
(***************************************************************************)
IsFailure(r) == r.done /\ r.error # "" /\ (Has(r, "success") => ~r.success)

Dispatched(api) == \E i \in DOMAIN calls : calls[i].api = api

\* the range text ends in <LETTERS><r1>:<LETTERS><r2>
EndsInTwoCorner(t) == \E i \in DOMAIN t : TwoCornerAt(t, i, TRUE).ok

\* r2 - r1 + 1 of a range that ends in the two-corner form
CornerRows(t) ==
  LET m == TwoCornerAt(t, CHOOSE i \in DOMAIN t : TwoCornerAt(t, i, TRUE).ok, TRUE)
  IN  ParseInt(m.g4) - ParseInt(m.g2) + 1

\* C1: once handleUpdateValues has acted on a range that ends in the
\* two-corner form, values.update has been dispatched if and only if the
\* payload has r2 - r1 + 1 rows; on a mismatch the result is a failure
\* carrying the row-count-mismatch message and no request was dispatched.
C1_UpdateValuesRowCount ==
  (cmd = "update_values" /\ pc # "start" /\ EndsInTwoCorner(input.range)) =>
     /\ Dispatched("values.update") <=> (Len(input.values) = CornerRows(input.range))
     /\ (Len(input.values) # CornerRows(input.range)) =>
           /\ IsFailure(result)
           /\ result.error = "Range mismatch"
           /\ calls = << >>

\* the scenario of the spec: "Sheet1!A1:B2" with a 3-row payload has failed
\* with nothing dispatched
C1_Witness ==
  /\ cmd = "update_values"
  /\ input.range = Qualified(SheetOne, Corners(Cell(0, 1), Cell(1, 2)))
  /\ Len(input.values) = 3
  /\ IsFailure(result)
  /\ result.error = "Range mismatch"
  /\ calls = << >>

MutatingApis == { "spreadsheets.batchUpdate", "values.update" }

Mutated == \E i \in DOMAIN calls : calls[i].api \in MutatingApis

\* the commands that resolve one range, and all that resolve ranges
SingleRangeCommands ==
  { "format_cells", "update_borders", "merge_cells", "unmerge_cells", "insert_rows" }

ResolvingCommands == SingleRangeCommands \cup { "batch_format_cells", "create_chart" }

\* the sheet names of the spreadsheet
SheetTitles ==
  { InitialBackend.sheets[i].title : i \in DOMAIN InitialBackend.sheets }

\* the range names a sheet the spreadsheet does not have
NamesAbsentSheet(t) ==
  /\ extractSheetName(t).ok
  /\ extractSheetName(t).sheetName # << >>
  /\ extractSheetName(t).sheetName \notin SheetTitles

\* the range cannot be resolved on this spreadsheet: its qualifier is
\* malformed, its sheet is absent, or its A1 text does not parse
FailsToResolve(t) ==
  \/ ~extractSheetName(t).ok
  \/ NamesAbsentSheet(t)
  \/ ~parseRange(extractSheetName(t).range, 0).ok

\* the command has ended with the failure of a resolution step
ResolutionFailed ==
  /\ result.done
  /\ \/ result.error \in { "Invalid range", "Sheet not found" }
     \/ result.error = "backend request failed" /\ LastCall.api = "spreadsheets.get"

\* C2: a range-resolving command that ended with a failed sheet resolution or
\* a failed A1 parse has dispatched no batchUpdate and no values.update; a
\* single-range command or a batch format with an entry that cannot be
\* resolved never dispatches one, so the backend stays as it was.
C2_NoMutationOnFailedResolve ==
  /\ (cmd \in ResolvingCommands /\ ResolutionFailed) => ~Mutated
  /\ (cmd \in SingleRangeCommands /\ FailsToResolve(input.range)) =>
        (~Mutated /\ backend = InitialBackend)
  /\ (/\ cmd = "batch_format_cells"
      /\ \E k \in DOMAIN input.formatRequests :
           FailsToResolve(input.formatRequests[k].range)) =>
        (~Mutated /\ backend = InitialBackend)

\* a batch format whose first entry resolved and whose second names an absent
\* sheet has ended in failure after two lookups, nothing applied
C2_Witness ==
  /\ cmd = "batch_format_cells"
  /\ Len(input.formatRequests) = 2
  /\ ~FailsToResolve(input.formatRequests[1].range)
  /\ NamesAbsentSheet(input.formatRequests[2].range)
  /\ result.done
  /\ result.error = "Sheet not found"
  /\ Len(calls) = 2
  /\ ~Mutated
  /\ backend = InitialBackend

\* C3: in the commands that look up metadata before they mutate, every
\* batchUpdate or values.update in the request log comes after every
\* spreadsheets.get of the command, and each of those lookups has been answered.
C3_MutationAfterLookups ==
  (cmd \in ResolvingCommands \cup { "update_chart" }) =>
     \A j \in DOMAIN calls :
       calls[j].api \in MutatingApis =>
         \A i \in DOMAIN calls :
           calls[i].api = "spreadsheets.get" =>
             (i < j /\ calls[i].status # "pending")

\* create chart has sent addChart after three sheet lookups (first series,
\* the series itself, the derived domain)
C3_Witness ==
  /\ cmd = "create_chart"
  /\ Len(calls) = 4
  /\ \A i \in 1..3 : calls[i].api = "spreadsheets.get" /\ calls[i].status = "ok"
  /\ calls[4].api = "spreadsheets.batchUpdate"

\* C4: a single-range command whose range names an absent sheet issues at most
\* one request, the metadata lookup, and when that lookup is answered ends
\* with the sheet-not-found failure; in every command a sheet-not-found failure
\* is returned right after an answered lookup, with nothing mutated.
C4_AbsentSheetOneRoundTrip ==
  /\ (cmd \in SingleRangeCommands /\ NamesAbsentSheet(input.range)) =>
        /\ Len(calls) <= 1
        /\ \A i \in DOMAIN calls : calls[i].api = "spreadsheets.get"
        /\ (result.done /\ calls[1].status = "ok") =>
              (IsFailure(result) /\ result.error = "Sheet not found")
  /\ (result.done /\ result.error = "Sheet not found") =>
        /\ calls # << >>
        /\ LastCall.api = "spreadsheets.get"
        /\ LastCall.status = "ok"
        /\ ~Mutated

\* update borders on a range of an absent sheet has failed after one lookup
C4_Witness ==
  /\ cmd = "update_borders"
  /\ NamesAbsentSheet(input.range)
  /\ IsFailure(result)
  /\ result.error = "Sheet not found"
  /\ Len(calls) = 1
  /\ calls[1].api = "spreadsheets.get"
  /\ calls[1].status = "ok"

\* C5: no request that the backend failed is issued again by the command, and
\* a command that has returned after a failed request has returned a failure.
C5_NoRetryFailureReported ==
  /\ \A i, j \in DOMAIN calls :
       (i < j /\ calls[i].status = "failed") =>
          ~(calls[j].api = calls[i].api /\ calls[j].req = calls[i].req)
  /\ (result.done /\ \E i \in DOMAIN calls : calls[i].status = "failed") =>
        IsFailure(result)

\* the zero-based row and column of the anchor the range text denotes
AnchorRow(t) == Coalesce(parseRange(extractSheetName(t).range, 0).startRowIndex, 0)

AnchorColumn(t) ==
  Coalesce(parseRange(extractSheetName(t).range, 0).startColumnIndex, 0)

\* the row range of the insertDimension request of insert rows
InsertedSpan(call) == call.req.requests[1].range

\* C6: the insertDimension request of insert rows carries startIndex = a and
\* endIndex = a + n for BEFORE, startIndex = a + 1 and endIndex = a + 1 + n
\* for AFTER, where a is the anchor's row index and n the row count; the span
\* is n rows tall.
C6_InsertedSpan ==
  cmd = "insert_rows" =>
    \A i \in DOMAIN calls :
      calls[i].api = "spreadsheets.batchUpdate" =>
        /\ Len(calls[i].req.requests) = 1
        /\ calls[i].req.requests[1].kind = "insertDimension"
        /\ InsertedSpan(calls[i]).dimension = "ROWS"
        /\ input.position = "BEFORE" =>
             /\ InsertedSpan(calls[i]).startIndex = AnchorRow(input.range)
             /\ InsertedSpan(calls[i]).endIndex = AnchorRow(input.range) + input.rows
        /\ input.position = "AFTER" =>
             /\ InsertedSpan(calls[i]).startIndex = AnchorRow(input.range) + 1
             /\ InsertedSpan(calls[i]).endIndex =
                  AnchorRow(input.range) + 1 + input.rows
        /\ InsertedSpan(calls[i]).endIndex - InsertedSpan(calls[i]).startIndex
             = input.rows

\* anchor row index 4, two rows, AFTER: the request spans 5..7
C6_Witness ==
  /\ cmd = "insert_rows"
  /\ input.range = Qualified(SheetOne, Cell(0, 5))
  /\ input.rows = 2
  /\ input.position = "AFTER"
  /\ \E i \in DOMAIN calls :
       /\ calls[i].api = "spreadsheets.batchUpdate"
       /\ InsertedSpan(calls[i]).startIndex = 5
       /\ InsertedSpan(calls[i]).endIndex = 7

\* the region the A1 text of a values.update denotes
WrittenRegion(call) == parseRange(extractSheetName(call.req.range).range, 0)

\* C7: the values.update that fills inserted rows addresses a region on the
\* sheet of the insertion that starts at the first inserted row and at the
\* anchor's column, is as tall as the payload has rows and as wide as the
\* longest row of the payload.
C7_FillRegion ==
  cmd = "insert_rows" =>
    \A i \in DOMAIN calls :
      calls[i].api = "values.update" =>
        /\ extractSheetName(calls[i].req.range).ok
        /\ extractSheetName(calls[i].req.range).sheetName
             = extractSheetName(input.range).sheetName
        /\ WrittenRegion(calls[i]).ok
        /\ WrittenRegion(calls[i]).startRowIndex
             = InsertedSpan(calls[i - 1]).startIndex
        /\ WrittenRegion(calls[i]).startColumnIndex = AnchorColumn(input.range)
        /\ WrittenRegion(calls[i]).endRowIndex - WrittenRegion(calls[i]).startRowIndex
             = Len(input.values)
        /\ WrittenRegion(calls[i]).endColumnIndex
             - WrittenRegion(calls[i]).startColumnIndex
             = MaxOf([ r \in DOMAIN input.values |-> Len(input.values[r]) ])

\* the format objects given to a formatting command and sent by it, request by
\* request
FormattingCommands == { "format_cells", "batch_format_cells" }

GivenFormat(n) ==
  IF cmd = "format_cells" THEN input.format ELSE input.formatRequests[n].format

SentFormat(call, n) == call.req.requests[n].cell.userEnteredFormat

\* C8: the userEnteredFormat of every repeatCell request of format cells and
\* batch format cells has exactly the keys of the input's format, at top level
\* and inside textFormat and numberFormat, and no numberFormat key is null.
C8_OnlySuppliedKeys ==
  cmd \in FormattingCommands =>
    \A i \in DOMAIN calls :
      calls[i].api = "spreadsheets.batchUpdate" =>
        \A n \in DOMAIN calls[i].req.requests :
          /\ DOMAIN SentFormat(calls[i], n) = DOMAIN GivenFormat(n)
          /\ Has(GivenFormat(n), "textFormat") =>
               DOMAIN SentFormat(calls[i], n).textFormat
                 = DOMAIN GivenFormat(n).textFormat
          /\ Has(GivenFormat(n), "numberFormat") =>
               /\ DOMAIN SentFormat(calls[i], n).numberFormat
                    = DOMAIN GivenFormat(n).numberFormat
               /\ \A k \in DOMAIN SentFormat(calls[i], n).numberFormat :
                    SentFormat(calls[i], n).numberFormat[k] # Null

\* the attributes some entry of the command supplies for the region
SuppliedFor(gridRange) ==
  UNION { DOMAIN GivenFormat(n) :
            n \in { n \in DOMAIN LastCall.req.requests :
                      LastCall.req.requests[n].range = gridRange } }

\* C9: after a successful format cells or batch format cells, every region
\* the command formatted has each attribute the input did not supply as it
\* was before, and the mask of every repeatCell covers supplied attributes
\* only.
C9_UnsuppliedAttributesKept ==
  (cmd \in FormattingCommands /\ result.done /\ result.success) =>
    /\ \A g \in DOMAIN backend.formats :
         \A k \in FormatKeys \ SuppliedFor(g) : backend.formats[g][k] = "old"
    /\ \A n \in DOMAIN LastCall.req.requests :
         MaskCovers(LastCall.req.requests[n].fields) \subseteq DOMAIN GivenFormat(n)

\* the edges of an updateBorders request
SentEdges(call) == DOMAIN call.req.requests[1] \ { "kind", "range" }

\* C10: the updateBorders request of update borders has exactly the edges the
\* input supplies, each with the style the input gives it, NONE included.
C10_ExactlySuppliedEdges ==
  cmd = "update_borders" =>
    \A i \in DOMAIN calls :
      calls[i].api = "spreadsheets.batchUpdate" =>
        /\ SentEdges(calls[i]) = DOMAIN input.borders
        /\ \A e \in DOMAIN input.borders :
             calls[i].req.requests[1][e].style = input.borders[e].style

\* top given with style NONE and nothing else: the request has top, with NONE,
\* and no other edge
C10_Witness ==
  /\ cmd = "update_borders"
  /\ DOMAIN input.borders = { "top" }
  /\ input.borders["top"].style = "NONE"
  /\ \E i \in DOMAIN calls :
       /\ calls[i].api = "spreadsheets.batchUpdate"
       /\ SentEdges(calls[i]) = { "top" }
       /\ calls[i].req.requests[1]["top"].style = "NONE"


\* the chart spec of the addChart request a create chart has sent
AddChartSpec(call) == call.req.requests[1].spec

\* the id the spreadsheet gives the sheet with this title
TitledSheetId(name) ==
  InitialBackend.sheets[CHOOSE i \in DOMAIN InitialBackend.sheets :
                          InitialBackend.sheets[i].title = name].sheetId

\* the sheet a range of a chart lies on when it is read on its own: the sheet
\* its qualifier names, the anchor cell's sheet without a qualifier
ChartSheetId(t) ==
  IF extractSheetName(t).sheetName = << >> THEN input.anchorSheetId
  ELSE TitledSheetId(extractSheetName(t).sheetName)

\* the range, without its qualifier, is <col><r1>:<col><r2> and nothing else
IsTwoCorner(t) == TwoCornerAt(extractSheetName(t).range, 1, TRUE).ok

\* the region of a two-corner range on the given sheet, and column A over its
\* rows
TwoCornerRegion(t, sheetId) ==
  LET m == TwoCornerAt(extractSheetName(t).range, 1, TRUE)
  IN  GridRange(sheetId, ParseInt(m.g2) - 1, ParseInt(m.g4),
                columnToIndex(m.g1), columnToIndex(m.g3) + 1)

ColumnARows(t, sheetId) ==
  LET m == TwoCornerAt(extractSheetName(t).range, 1, TRUE)
  IN  GridRange(sheetId, ParseInt(m.g2) - 1, ParseInt(m.g4), 0, 1)

FirstSeries == input.series[1].sourceRange

\* C11: a PIE chart created without domainRange from a first series of
\* two-corner form is sent with the domain column A, rows r1..r2, on the sheet
\* of that series, and with the first series alone as its value series.
C11_PieDerivedDomain ==
  (/\ cmd = "create_chart"
   /\ input.chartType = "PIE"
   /\ input.domainRange = << >>
   /\ Len(input.series) >= 1
   /\ IsTwoCorner(FirstSeries)) =>
     \A i \in DOMAIN calls :
       calls[i].api = "spreadsheets.batchUpdate" =>
         /\ AddChartSpec(calls[i]).family = "pieChart"
         /\ AddChartSpec(calls[i]).domains
              = << [ sourceRange |->
                       ColumnARows(FirstSeries, ChartSheetId(FirstSeries)) ] >>
         /\ AddChartSpec(calls[i]).series
              = << [ sourceRange |->
                       TwoCornerRegion(FirstSeries, ChartSheetId(FirstSeries)) ] >>

\* a PIE chart of two series, the first Sheet1!B2:B3, no domainRange: the
\* request has the domain A2:A3 of Sheet1 and the one series B2:B3
C11_Witness ==
  /\ cmd = "create_chart"
  /\ input.chartType = "PIE"
  /\ input.domainRange = << >>
  /\ Len(input.series) = 2
  /\ FirstSeries = Qualified(SheetOne, Corners(Cell(1, 2), Cell(1, 3)))
  /\ \E i \in DOMAIN calls :
       /\ calls[i].api = "spreadsheets.batchUpdate"
       /\ AddChartSpec(calls[i]).domains
            = << [ sourceRange |-> GridRange(0, 1, 3, 0, 1) ] >>
       /\ AddChartSpec(calls[i]).series
            = << [ sourceRange |-> GridRange(0, 1, 3, 1, 2) ] >>

\* a range of a chart can be resolved on the spreadsheet
Resolvable(t) == ~FailsToResolve(t)

\* C12: a PIE chart created with a domainRange is sent with the region of
\* domainRange, on the sheet domainRange names, as its domain.
C12_PieExplicitDomain ==
  (/\ cmd = "create_chart"
   /\ input.chartType = "PIE"
   /\ input.domainRange # << >>
   /\ Resolvable(input.domainRange)
   /\ Len(input.series) >= 1) =>
     \A i \in DOMAIN calls :
       calls[i].api = "spreadsheets.batchUpdate" =>
         AddChartSpec(calls[i]).domains
           = << [ sourceRange |->
                    parseRange(extractSheetName(input.domainRange).range,
                               ChartSheetId(input.domainRange)) ] >>


\* the sheet of the k-th series as the claim reads it: the sheet its own
\* qualifier names; a series without qualifier lies on the first series' sheet
SeriesSheetId(k) ==
  IF extractSheetName(input.series[k].sourceRange).sheetName = << >>
  THEN ChartSheetId(FirstSeries)
  ELSE ChartSheetId(input.series[k].sourceRange)

\* the region a range denotes on the given sheet
RegionOn(t, sheetId) == parseRange(extractSheetName(t).range, sheetId)

\* column A over the rows of a region
ColumnAOver(g) == GridRange(g.sheetId, g.startRowIndex, g.endRowIndex, 0, 1)

\* the sheet of an explicit domainRange: its qualifier's, else the first
\* series' sheet
DomainSheetId ==
  IF extractSheetName(input.domainRange).sheetName = << >>
  THEN ChartSheetId(FirstSeries)
  ELSE ChartSheetId(input.domainRange)

\* C13: a non-PIE chart is sent with one series entry per input series, in
\* input order, each on the sheet of its own qualifier; its one domain is the
\* region of domainRange when that is given, and otherwise column A over the
\* rows of the first series on the first series' sheet.
C13_CategoricalSeriesAndDomain ==
  (/\ cmd = "create_chart"
   /\ input.chartType # "PIE"
   /\ Len(input.series) >= 1) =>
     \A i \in DOMAIN calls :
       calls[i].api = "spreadsheets.batchUpdate" =>
         /\ AddChartSpec(calls[i]).family = "basicChart"
         /\ Len(AddChartSpec(calls[i]).series) = Len(input.series)
         /\ \A k \in DOMAIN input.series :
              AddChartSpec(calls[i]).series[k].sourceRange
                = RegionOn(input.series[k].sourceRange, SeriesSheetId(k))
         /\ input.domainRange # << >> =>
              AddChartSpec(calls[i]).domains
                = << [ sourceRange |-> RegionOn(input.domainRange, DomainSheetId) ] >>
         /\ input.domainRange = << >> =>
              AddChartSpec(calls[i]).domains
                = << [ sourceRange |->
                         ColumnAOver(RegionOn(FirstSeries,
                                              ChartSheetId(FirstSeries))) ] >>


\* the number of domains with a source region in a chart spec
DomainCount(spec) ==
  Cardinality({ d \in DOMAIN spec.domains : spec.domains[d].sourceRange.ok })

\* C14: every addChart request of a create chart with at least one series
\* carries exactly one domain with a source region, whatever the form of the
\* first series' range and whether or not domainRange is given.
C14_ExactlyOneDomain ==
  (cmd = "create_chart" /\ Len(input.series) >= 1) =>
     \A i \in DOMAIN calls :
       calls[i].api = "spreadsheets.batchUpdate" =>
         DomainCount(AddChartSpec(calls[i])) = 1


\* the suffix convention of legend positions: the token with _LEGEND at its end
Suffixed(token) == IF EndsWith(token, LegendSuffix) THEN token ELSE token \o LegendSuffix

\* the chart spec of the updateChartSpec request an update chart has sent, and
\* the chart-family object in a chart spec of the backend
UpdatedSpec(call) == call.req.requests[2].spec

FamilyOf(spec) == IF Has(spec, "pieChart") THEN spec.pieChart ELSE spec.basicChart

\* C15: the legend position create chart and update chart send is the supplied
\* token with the _LEGEND suffix appended when it lacks it, a token that has
\* the suffix is sent as it is, and normalizing twice is normalizing once.
C15_LegendNormalized ==
  /\ cmd = "create_chart" =>
       \A i \in DOMAIN calls :
         calls[i].api = "spreadsheets.batchUpdate" =>
           AddChartSpec(calls[i]).legendPosition
             = IF input.legend = << >> THEN BottomLegend ELSE Suffixed(input.legend)
  /\ (cmd = "update_chart" /\ Has(input, "legend") /\ input.legend.position # << >>) =>
       \A i \in DOMAIN calls :
         calls[i].api = "spreadsheets.batchUpdate" =>
           FamilyOf(UpdatedSpec(calls[i])).legendPosition
             = Suffixed(input.legend.position)
  /\ \A p \in LegendInputs :
       createLegendPosition(createLegendPosition(p)) = createLegendPosition(p)


\* the attributes of the chart-family object that the update input names
NamedFamilyKeys ==
  (IF Has(input, "chartType") THEN { "chartType" } ELSE { })
    \cup (IF Has(input, "legend") THEN { "legendPosition" } ELSE { })
    \cup (IF Has(input, "series") THEN { "series" } ELSE { })

\* the attributes of the chart spec, outside the chart-family object, that the
\* update input names
NamedSpecKeys == { "title", "subtitle", "backgroundColor", "altText" } \cap DOMAIN input

\* C16: update chart writes back every field of the chart it read that its
\* input does not name: the position, the attributes of the spec, and inside
\* the chart-family object the legend position, the series and every other
\* attribute.
C16_UntouchedFieldsPreserved ==
  cmd = "update_chart" =>
    \A i \in DOMAIN calls :
      calls[i].api = "spreadsheets.batchUpdate" =>
        /\ ~Has(input, "position") =>
             calls[i].req.requests[1].newPosition = ExistingChart.position
        /\ \A k \in DOMAIN ExistingChart.spec \ { "basicChart", "pieChart" } :
             k \notin NamedSpecKeys =>
               /\ Has(UpdatedSpec(calls[i]), k)
               /\ UpdatedSpec(calls[i])[k] = ExistingChart.spec[k]
        /\ ~Has(input, "legend") =>
             FamilyOf(UpdatedSpec(calls[i])).legendPosition
               = FamilyOf(ExistingChart.spec).legendPosition
        /\ Has(UpdatedSpec(calls[i]), "basicChart") =>
             \A k \in DOMAIN ExistingChart.spec.basicChart \ NamedFamilyKeys :
               /\ Has(UpdatedSpec(calls[i]).basicChart, k)
               /\ UpdatedSpec(calls[i]).basicChart[k]
                    = ExistingChart.spec.basicChart[k]


\* no sheet of the spreadsheet holds a chart with the id of the input
ChartIsMissing ==
  \A s \in DOMAIN InitialBackend.sheets :
    \A c \in DOMAIN InitialBackend.sheets[s].charts :
      InitialBackend.sheets[s].charts[c].chartId # input.chartId

\* C17: update chart with a chartId that no sheet holds issues one request,
\* the read of the spreadsheet, never a batchUpdate, and once the read is
\* answered it ends with a failure whose message names the chart id.
C17_MissingChartFails ==
  (cmd = "update_chart" /\ ChartIsMissing) =>
     /\ Len(calls) <= 1
     /\ \A i \in DOMAIN calls : calls[i].api = "spreadsheets.get"
     /\ (pc = "done" /\ calls[1].status = "ok") =>
          /\ IsFailure(result)
          /\ result.error = chartNotFoundMessage(input.chartId)

\* update chart for chart 9, which the spreadsheet does not hold, has failed
\* after its one read
C17_Witness ==
  /\ cmd = "update_chart"
  /\ input.chartId = 9
  /\ ChartIsMissing
  /\ Len(calls) = 1
  /\ calls[1].api = "spreadsheets.get"
  /\ calls[1].status = "ok"
  /\ IsFailure(result)
  /\ result.error = "Chart with ID 9 not found"


\* the requests of the command that the backend failed
FailedCalls == { i \in DOMAIN calls : calls[i].status = "failed" }

\* C18: a command that has returned after any of its backend requests failed
\* has returned a failure with its error populated - insert date after a
\* failed number-format request and check access after a failed probe included.
C18_NoErrorSwallowed ==
  (pc = "done" /\ FailedCalls # { }) =>
     /\ Has(result, "error")
     /\ result.error # ""
     /\ Has(result, "success") => ~result.success


\* the commands that send a list of sub-operations in one request
BatchedCommands == { "batch_format_cells", "batch_delete_sheets", "batch_update_values" }

\* the positions of the mutating requests in the log, where values.batchUpdate
\* counts as mutating too
BatchCalls ==
  { i \in DOMAIN calls :
      calls[i].api \in MutatingApis \cup { "values.batchUpdate" } }

\* the command has gone past its last resolution step without failing there
PastResolution ==
  IF cmd = "batch_format_cells" THEN pc \in { "updating", "done" } /\ ~ResolutionFailed
  ELSE pc # "start"

\* C19: a batched command dispatches at most one mutating request, exactly one
\* once its entries are resolved, and that request holds one sub-operation per
\* input entry, in input order: the repeatCell of entry k for batch format,
\* the deleteSheet of id k for batch delete, range and values k for batch
\* update values.
C19_OneRequestPerBatch ==
  cmd \in BatchedCommands =>
    /\ Cardinality(BatchCalls) <= 1
    /\ PastResolution => Cardinality(BatchCalls) = 1
    /\ \A i \in BatchCalls :
         /\ cmd = "batch_format_cells" =>
              /\ calls[i].api = "spreadsheets.batchUpdate"
              /\ Len(calls[i].req.requests) = Len(input.formatRequests)
              /\ \A k \in DOMAIN input.formatRequests :
                   /\ calls[i].req.requests[k].kind = "repeatCell"
                   /\ calls[i].req.requests[k].range
                        = RegionOn(input.formatRequests[k].range,
                                   TitledSheetId(extractSheetName(
                                     input.formatRequests[k].range).sheetName))
                   /\ Has(input.formatRequests[k].format, "textFormat")
                        <=> Has(SentFormat(calls[i], k), "textFormat")
                   /\ Has(input.formatRequests[k].format, "backgroundColor")
                        <=> Has(SentFormat(calls[i], k), "backgroundColor")
         /\ cmd = "batch_delete_sheets" =>
              /\ calls[i].api = "spreadsheets.batchUpdate"
              /\ Len(calls[i].req.requests) = Len(input.sheetIds)
              /\ \A k \in DOMAIN input.sheetIds :
                   /\ calls[i].req.requests[k].kind = "deleteSheet"
                   /\ calls[i].req.requests[k].sheetId = input.sheetIds[k]
         /\ cmd = "batch_update_values" =>
              /\ calls[i].api = "values.batchUpdate"
              /\ Len(calls[i].req.data) = Len(input.data)
              /\ \A k \in DOMAIN input.data :
                   /\ calls[i].req.data[k].range = input.data[k].range
                   /\ calls[i].req.data[k].values = input.data[k].values

\* a batch delete of sheets 7 and 0, in that order, has sent one batchUpdate
\* with the deleteSheet of 7 first and the deleteSheet of 0 second
C19_Witness ==
  /\ cmd = "batch_delete_sheets"
  /\ input.sheetIds = << 7, 0 >>
  /\ Len(calls) = 1
  /\ calls[1].api = "spreadsheets.batchUpdate"
  /\ calls[1].req.requests
       = << [ kind |-> "deleteSheet", sheetId |-> 7 ],
            [ kind |-> "deleteSheet", sheetId |-> 0 ] >>
  /\ pc = "done"
  /\ result.success


\* the running invocation and the waiting ones
Invocations == << Running >> \o waiting

\* the id of the sheet with the given title in a metadata reply
ReplySheetId(data, name) ==
  data.sheets[CHOOSE n \in DOMAIN data.sheets : data.sheets[n].title = name].sheetId

\* the i-th request of invocation c is the one its own input and the replies
\* to its own earlier requests determine
OwnRequest(c, i) ==
  IF c.cmd = "update_values"
  THEN /\ i = 1
       /\ c.calls[i].api = "values.update"
       /\ c.calls[i].req = [ range |-> c.input.range, values |-> c.input.values ]
  ELSE IF c.cmd = "batch_delete_sheets"
  THEN /\ i = 1
       /\ c.calls[i].api = "spreadsheets.batchUpdate"
       /\ Len(c.calls[i].req.requests) = Len(c.input.sheetIds)
       /\ \A k \in DOMAIN c.input.sheetIds :
            c.calls[i].req.requests[k].sheetId = c.input.sheetIds[k]
  ELSE IF c.cmd = "merge_cells"
  THEN IF i = 1 THEN c.calls[i].api = "spreadsheets.get"
       ELSE /\ i = 2
            /\ c.calls[1].status = "ok"
            /\ c.calls[i].api = "spreadsheets.batchUpdate"
            /\ c.calls[i].req.requests
                 = << [ kind |-> "mergeCells",
                        range |->
                          RegionOn(c.input.range,
                                   ReplySheetId(c.calls[1].data,
                                     extractSheetName(c.input.range).sheetName)),
                        mergeType |-> c.input.mergeType ] >>
  ELSE FALSE

\* C20: with two invocations interleaved on the event loop, every request of
\* an invocation carries the access token of that invocation's own input, and
\* is the request that invocation's input and the replies to its own earlier
\* requests determine.
C20_OwnTokenOwnInput ==
  \A n \in DOMAIN Invocations :
    \A i \in DOMAIN Invocations[n].calls :
      /\ Invocations[n].calls[i].token = Invocations[n].input.accessToken
      /\ OwnRequest(Invocations[n], i)

\* both invocations have sent a request while the other was in flight: the
\* running one carries the second token and has its request answered, the
\* waiting one carries the first token and was parked with a request sent
C20_Witness ==
  /\ waiting # << >>
  /\ input.accessToken = SecondToken
  /\ waiting[1].input.accessToken = FirstToken
  /\ waiting[1].pc \notin { "start", "done" }
  /\ waiting[1].calls # << >>
  /\ waiting[1].calls[1].token = FirstToken
  /\ cmd = "merge_cells"
  /\ Len(calls) = 2
  /\ calls[2].api = "spreadsheets.batchUpdate"
  /\ calls[2].token = SecondToken


\* the number of column names of one, two or three letters
UpToThreeLetters == 26 + 26 * 26 + 26 * 26 * 26

\* the indices the column names change length at, with their names
Landmarks ==
  << [ index |-> 0, column |-> << "A" >> ],
     [ index |-> 25, column |-> << "Z" >> ],
     [ index |-> 26, column |-> << "A", "A" >> ],
     [ index |-> 701, column |-> << "Z", "Z" >> ],
     [ index |-> 702, column |-> << "A", "A", "A" >> ],
     [ index |-> 18277, column |-> << "Z", "Z", "Z" >> ] >>

\* C21: the column name of index n is a non-empty run of letters, of at most
\* three letters exactly when n is below 26 + 26^2 + 26^3; the landmark
\* indices 0, 25, 26, 701, 702, 18277 give A, Z, AA, ZZ, AAA, ZZZ; the name of
\* the next index is a different one, and reading the name back as bijective
\* base 26 returns n, so that distinct indices have distinct names.
C21_IndexToColumnBijective ==
  (cmd = "indexToColumn" /\ pc = "done") =>
    /\ result.column # << >>
    /\ \A i \in DOMAIN result.column : IsUpper(result.column[i])
    /\ (Len(result.column) <= 3) <=> (input.index < UpToThreeLetters)
    /\ \A k \in DOMAIN Landmarks :
         (input.index = Landmarks[k].index) <=> (result.column = Landmarks[k].column)
    /\ indexToColumn(input.index + 1) # result.column
    /\ columnToIndex(result.column) = input.index

\* the last three-letter column has been converted
C21_Witness ==
  /\ cmd = "indexToColumn"
  /\ pc = "done"
  /\ input.index = 18277
  /\ result.column = << "Z", "Z", "Z" >>


\* the positions in the log of the requests to the given api
CallsTo(api) == { i \in DOMAIN calls : calls[i].api = api }

\* C22: in insert rows, a values.update is in the log only directly after an
\* insertDimension batchUpdate that succeeded (so none follows a failed
\* insertDimension); when the values.update has failed and the command has
\* returned, the result is a failure, the values.update is the last request of
\* the log, no request of the log deletes rows, and the backend still holds the
\* inserted span.
C22_InsertThenFillNoRollback ==
  cmd = "insert_rows" =>
    /\ \A i \in CallsTo("values.update") :
         /\ i > 1
         /\ calls[i - 1].api = "spreadsheets.batchUpdate"
         /\ calls[i - 1].req.requests[1].kind = "insertDimension"
         /\ calls[i - 1].status = "ok"
    /\ \A i \in CallsTo("spreadsheets.batchUpdate") :
         calls[i].status = "failed" => CallsTo("values.update") = { }
    /\ \A i \in CallsTo("values.update") :
         (calls[i].status = "failed" /\ pc = "done") =>
           /\ IsFailure(result)
           /\ i = Len(calls)
           /\ \A j \in CallsTo("spreadsheets.batchUpdate") :
                \A n \in DOMAIN calls[j].req.requests :
                  calls[j].req.requests[n].kind = "insertDimension"
           /\ backend.inserted = << InsertedSpan(calls[i - 1]) >>

\* the rows were inserted, the values.update failed and the command returned
C22_Witness ==
  /\ cmd = "insert_rows"
  /\ pc = "done"
  /\ Len(calls) = 3
  /\ calls[2].status = "ok"
  /\ calls[3].api = "values.update"
  /\ calls[3].status = "failed"
  /\ IsFailure(result)
  /\ backend.inserted # << >>


\* the region a series' sourceRange denotes: on the sheet its qualifier names
SeriesRegion(series) ==
  RegionOn(series.sourceRange,
           TitledSheetId(extractSheetName(series.sourceRange).sheetName))

\* C23: the series update chart writes for a categorical chart have as source
\* regions the regions their sourceRange texts denote, open-ended bounds kept
\* open, and series with different sourceRange texts get different regions.
C23_UpdatedSeriesRegions ==
  (cmd = "update_chart" /\ Has(input, "series")) =>
    \A i \in CallsTo("spreadsheets.batchUpdate") :
      Has(UpdatedSpec(calls[i]), "basicChart") =>
        LET written == UpdatedSpec(calls[i]).basicChart.series
        IN  /\ Len(written) = Len(input.series)
            /\ \A k \in DOMAIN input.series :
                 written[k].sourceRange = SeriesRegion(input.series[k])
            /\ \A k, l \in DOMAIN input.series :
                 input.series[k].sourceRange # input.series[l].sourceRange =>
                   written[k].sourceRange # written[l].sourceRange


\* 1 for a range text with a sheet qualifier, 0 for one without
QualifiedCount(t) == IF extractSheetName(t).sheetName # << >> THEN 1 ELSE 0

RECURSIVE QualifiedSeries(_)
QualifiedSeries(series) ==
  IF Len(series) = 0 THEN 0
  ELSE QualifiedCount(Head(series).sourceRange) + QualifiedSeries(Tail(series))

\* the resolver calls a command makes on its way to its mutating request: one
\* per entry of a batch format; in create chart one for the first series of a
\* pie chart, and for a categorical chart one for the first series, one for
\* every qualified series (the first among them, again) and one for the domain,
\* explicit or derived from the first series; one in the single-range commands
ResolverCalls ==
  IF cmd = "batch_format_cells" THEN Len(input.formatRequests)
  ELSE IF cmd = "create_chart"
  THEN IF Len(input.series) = 0 THEN 0
       ELSE IF input.chartType = "PIE" THEN QualifiedCount(FirstSeries)
       ELSE QualifiedCount(FirstSeries) + QualifiedSeries(input.series)
              + QualifiedCount(IF input.domainRange # << >> THEN input.domainRange
                               ELSE FirstSeries)
  ELSE 1

AccessRead == calls[1]

AccessProbe == calls[2]

\* C25: the report of check access has canRead exactly when the metadata read
\* succeeded, and canWrite exactly when the read succeeded and the write probe
\* succeeded or failed with a code other than 403 and 400; after a failed read
\* both are false and the error is the not-found text for 404, the
\* access-denied text for 403 and the failure's own message otherwise; canShare
\* and isOwner are always false, and the recommendation is the read/write text
\* exactly when canWrite is true.
C25_AccessFromProbes ==
  (cmd = "check_access" /\ pc = "done") =>
    /\ result.permissions.canRead <=> (AccessRead.status = "ok")
    /\ result.permissions.canWrite <=>
         /\ AccessRead.status = "ok"
         /\ Len(calls) = 2
         /\ \/ AccessProbe.status = "ok"
            \/ AccessProbe.status = "failed" /\ AccessProbe.code \notin { 403, 400 }
    /\ AccessRead.status = "failed" =>
         /\ ~result.permissions.canRead
         /\ ~result.permissions.canWrite
         /\ result.error # ""
         /\ AccessRead.code = 404 => result.error = SpreadsheetNotFound
         /\ AccessRead.code = 403 => result.error = AccessDenied
         /\ AccessRead.code \notin { 403, 404 } =>
              result.error = BackendError(AccessRead.code).message
    /\ ~result.permissions.canShare
    /\ ~result.permissions.isOwner
    /\ (result.recommendation = ReadWriteAccess) <=> result.permissions.canWrite

\* the read succeeded and the probe failed with 400: read-only
C25_Witness ==
  /\ cmd = "check_access"
  /\ pc = "done"
  /\ Len(calls) = 2
  /\ AccessProbe.status = "failed"
  /\ AccessProbe.code = 400
  /\ result.permissions.canRead
  /\ ~result.permissions.canWrite
  /\ result.recommendation = ReadOnlyAccess


SuppliedProperties ==
  { n \in { "title", "tabColor" } : Has(input, n) }
    \cup { GridPath(GridPropertyKeys[i]) : i \in
             { i \in DOMAIN GridPropertyKeys :
                 Has(input, "gridProperties")
                   /\ Has(input.gridProperties, GridPropertyKeys[i]) } }

\* the value the input supplies for a property
SuppliedValue(n) ==
  IF n \in { "title", "tabColor" } THEN input[n]
  ELSE input.gridProperties[
         GridPropertyKeys[CHOOSE i \in DOMAIN GridPropertyKeys :
                            GridPath(GridPropertyKeys[i]) = n]]

\* C27: update sheet properties sends one updateSheetProperties request whose
\* field mask names, once each, exactly the properties the input supplies
\* among title, the four gridProperties counts and tabColor, so that after it
\* the sheet has the supplied values and every other property as before; with
\* no property supplied (an empty gridProperties object included) it sends no
\* request and fails with 'No properties to update'.
C27_MaskExactlySupplied ==
  cmd = "update_sheet_properties" =>
    /\ \A i \in DOMAIN calls :
         /\ i = 1
         /\ calls[i].api = "spreadsheets.batchUpdate"
         /\ Len(calls[i].req.requests) = 1
         /\ calls[i].req.requests[1].kind = "updateSheetProperties"
         /\ calls[i].req.requests[1].properties.sheetId = input.sheetId
         /\ { calls[i].req.requests[1].fields[k] :
                k \in DOMAIN calls[i].req.requests[1].fields } = SuppliedProperties
         /\ Len(calls[i].req.requests[1].fields) = Cardinality(SuppliedProperties)
    /\ SuppliedProperties = { } =>
         /\ calls = << >>
         /\ pc = "done" => (IsFailure(result) /\ result.error = "No properties to update")
    /\ (SuppliedProperties # { } /\ pc = "done") => Len(calls) = 1
    /\ \A n \in SheetPropertyNames :
         backend.properties[input.sheetId][n] =
           IF n \in SuppliedProperties /\ calls # << >> /\ calls[1].status = "ok"
           THEN SuppliedValue(n)
           ELSE InitialBackend.properties[input.sheetId][n]
    /\ \A id \in DOMAIN backend.properties \ { input.sheetId } :
         backend.properties[id] = InitialBackend.properties[id]

\* only frozenRowCount was supplied and the request succeeded: the mask names it
\* alone and the other counts are as before
C27_Witness ==
  /\ cmd = "update_sheet_properties"
  /\ pc = "done"
  /\ SuppliedProperties = { GridPath("frozenRowCount") }
  /\ Len(calls) = 1
  /\ calls[1].status = "ok"
  /\ calls[1].req.requests[1].fields = << GridPath("frozenRowCount") >>
  /\ backend.properties[7][GridPath("frozenRowCount")] = 2
  /\ backend.properties[7][GridPath("rowCount")] = "old"


\* the cell insert date wrote to: on the sheet its range names, on the first
\* sheet of the spreadsheet when the range has no qualifier
WrittenCell ==
  RegionOn(input.range,
           IF extractSheetName(input.range).sheetName = << >>
           THEN InitialBackend.sheets[1].sheetId
           ELSE TitledSheetId(extractSheetName(input.range).sheetName))

\* C28: the DATE number format insert date sends for the locale format is
\* applied to the cell the date was written to: same sheet, row and column.
C28_DateFormatOnWrittenCell ==
  (cmd = "insert_date" /\ input.format = "locale") =>
    \A i \in CallsTo("spreadsheets.batchUpdate") :
      /\ calls[i].req.requests[1].kind = "repeatCell"
      /\ calls[i].req.requests[1].cell.userEnteredFormat.numberFormat.type = "DATE"
      /\ calls[i].req.requests[1].range = WrittenCell


\* C29: the rows the values.update of insert rows writes lie inside the span
\* of rows just inserted, from startIndex up to startIndex + rows, whatever
\* the row count and the height of the values payload.
C29_FillInsideInsertedSpan ==
  cmd = "insert_rows" =>
    \A i \in CallsTo("values.update") :
      /\ WrittenRegion(calls[i]).startRowIndex
           >= InsertedSpan(calls[i - 1]).startIndex
      /\ WrittenRegion(calls[i]).endRowIndex
           <= InsertedSpan(calls[i - 1]).endIndex


\* the chart with the given id as the backend holds it
BackendChart(id) == ChartsWithId(backend.sheets, id)[1]

\* the fields of the chart spec an update chart input names
NamedTexts(in) == DOMAIN in \ { "accessToken", "chartId" }

\* C30: when two update chart commands on the same chart that name different
\* fields have both returned with success, the chart spec at the backend has
\* the values of both, in whatever order their reads and writes were answered.
C30_NoLostUpdate ==
  ( /\ cmd = "update_chart"
    /\ waiting # << >>
    /\ \A n \in DOMAIN Invocations :
         /\ Invocations[n].pc = "done"
         /\ ~IsFailure(Invocations[n].result) ) =>
    \A n \in DOMAIN Invocations :
      \A key \in NamedTexts(Invocations[n].input) :
        /\ Has(BackendChart(1).spec, key)
        /\ BackendChart(1).spec[key] = Invocations[n].input[key]

=============================================================================
